---- MODULE Spec2Model ----
\* Wallet indexer: paginated backfill, tail sync, provider client with retry,
\* transaction normalizer and the durable store they write to.
EXTENDS Integers, Sequences, FiniteSets, TLC

\* ------------------------------------------------------------------ bounds

\* Number of transactions the chain produces in one behaviour.
MaxTx == 3
\* Number of items the upstream provider returns per page.
PageSize == 2
\* Longest run of consecutive failing HTTP answers the provider gives.
MaxFaultRun == 6
\* The longest tokenTransfers array of a payload handed to the normalizer alone.
MaxTransfers == 2

\* ------------------------------------------------------- program constants

\* p-retry option `retries`.
Retries == 5
\* parseInt(process.env.MAX_PAGES || '1000')
DefaultMaxPages == 1000
SOL_DECIMALS == 9
\* decimals used when the metadata cache has no entry
FallbackDecimals == 9

SOL_MINT == "SOL"
AMM_PROGRAMS == {"JUP4", "RVKd"}

\* ------------------------------------------------------------- basic values

None == <<>>
Some(x) == <<x>>
Val(o) == o[1]

SetMax(S) == CHOOSE x \in S : \A y \in S : y <= x
SetMin(S) == CHOOSE x \in S : \A y \in S : x <= y

\* Math.max(...[]) is -Infinity and Math.min(...[]) is +Infinity; slots are >= 1
\* and at most MaxTx, so 0 and MaxTx + 1 stand for the two infinities.
NegInfinity == 0
PosInfinity == MaxTx + 1
MathMax(S) == IF S = {} THEN NegInfinity ELSE SetMax(S)
MathMin(S) == IF S = {} THEN PosInfinity ELSE SetMin(S)

Range(s) == {s[i] : i \in 1..Len(s)}

Wallets == {"W1"}

\* String.prototype.toLowerCase on the addresses of the model.
Lower(a) ==
  CASE a = "W1" -> "w1"
    [] a = "X" -> "x"
    [] OTHER -> a

\* ------------------------------------------------ provider transaction shapes

\* The payloads the upstream provider serves (EnhancedTx): token transfers,
\* native transfers, fee, instructions' program ids, events.swap, fee payer.
\* A missing mint / account is "", a missing amount is None.
TxShapes == <<
  \* 1: the wallet pays SOL to another account (one SELL)
  [tokenTransfers |-> <<>>,
   nativeTransfers |-> <<[fromUserAccount |-> "W1", toUserAccount |-> "X", amount |-> Some(4)]>>,
   fee |-> 1, programs |-> {}, swap |-> FALSE, feePayer |-> "W1"],
  \* 2: the wallet swaps M1 for M2 through an AMM (a SELL and a BUY)
  [tokenTransfers |-> <<[mint |-> "M1", fromUserAccount |-> "W1", toUserAccount |-> "X", tokenAmount |-> Some(2)],
                        [mint |-> "M2", fromUserAccount |-> "X", toUserAccount |-> "W1", tokenAmount |-> Some(3)]>>,
   nativeTransfers |-> <<>>, fee |-> 1, programs |-> {"JUP4"}, swap |-> TRUE, feePayer |-> "W1"],
  \* 3: the wallet only pays the fee of a transfer between others (no event)
  [tokenTransfers |-> <<[mint |-> "M1", fromUserAccount |-> "X", toUserAccount |-> "X", tokenAmount |-> Some(1)]>>,
   nativeTransfers |-> <<>>, fee |-> 1, programs |-> {}, swap |-> FALSE, feePayer |-> "W1"],
  \* 4: a payment between two other accounts; the wallet has no part in it
  [tokenTransfers |-> <<>>,
   nativeTransfers |-> <<[fromUserAccount |-> "X", toUserAccount |-> "Y", amount |-> Some(4)]>>,
   fee |-> 1, programs |-> {}, swap |-> FALSE, feePayer |-> "X"],
  \* 5: the wallet receives 5 of M1 (one BUY)
  [tokenTransfers |-> <<[mint |-> "M1", fromUserAccount |-> "X", toUserAccount |-> "W1", tokenAmount |-> Some(5)]>>,
   nativeTransfers |-> <<>>, fee |-> 1, programs |-> {}, swap |-> FALSE, feePayer |-> "X"],
  \* 6: the wallet sends 4 of M1 and pays the fee (one SELL)
  [tokenTransfers |-> <<[mint |-> "M1", fromUserAccount |-> "W1", toUserAccount |-> "X", tokenAmount |-> Some(4)]>>,
   nativeTransfers |-> <<>>, fee |-> 1, programs |-> {}, swap |-> FALSE, feePayer |-> "W1"],
  \* 7: the wallet receives 2 of M1 (one BUY)
  [tokenTransfers |-> <<[mint |-> "M1", fromUserAccount |-> "X", toUserAccount |-> "W1", tokenAmount |-> Some(2)]>>,
   nativeTransfers |-> <<>>, fee |-> 1, programs |-> {}, swap |-> FALSE, feePayer |-> "X"]
>>

\* The shapes the trading histories of the position analysis are made of,
\* and those of them that appear in no other history.
TradeShapeIds == {2, 5, 6, 7}

TradeOnlyShapeIds == TradeShapeIds \ {2}

\* The wallets whose address history lists a transaction of this shape.
Parties(shape) ==
  {w \in Wallets :
     \/ shape.feePayer = w
     \/ \E i \in 1..Len(shape.tokenTransfers) :
          w \in {shape.tokenTransfers[i].fromUserAccount, shape.tokenTransfers[i].toUserAccount}
     \/ \E i \in 1..Len(shape.nativeTransfers) :
          w \in {shape.nativeTransfers[i].fromUserAccount, shape.nativeTransfers[i].toUserAccount}}

\* The shapes of the wallets' own transactions, and the others.
ShapeIds == {i \in 1..Len(TxShapes) : Parties(TxShapes[i]) # {}} \ TradeOnlyShapeIds

OtherShapeIds == {i \in 1..Len(TxShapes) : Parties(TxShapes[i]) = {}}

\* ------------------------------------------------- payloads of any shape

\* The accounts of a transfer: the wallet, an address that differs from the
\* wallet's in letter case only, and another account.
Accounts == {"W1", "w1", "X"}

\* tokenTransfers entries: well-formed ones, one without a mint and one whose
\* tokenAmount is not a number.
TokenTransfers ==
  [mint : {"M1", "M2"}, fromUserAccount : Accounts, toUserAccount : Accounts,
   tokenAmount : {Some(2)}]
  \cup {[mint |-> "", fromUserAccount |-> "W1", toUserAccount |-> "X", tokenAmount |-> Some(2)],
        [mint |-> "M1", fromUserAccount |-> "W1", toUserAccount |-> "X", tokenAmount |-> None]}

\* nativeTransfers entries: well-formed ones and one whose amount is not a number.
NativeTransfers ==
  [fromUserAccount : Accounts, toUserAccount : Accounts, amount : {Some(3)}]
  \cup {[fromUserAccount |-> "W1", toUserAccount |-> "X", amount |-> None]}

SeqsUpTo(S, n) == UNION {[1..k -> S] : k \in 0..n}

\* The payloads the normalizer is handed on its own.
Payloads ==
  [tokenTransfers : SeqsUpTo(TokenTransfers, MaxTransfers),
   nativeTransfers : SeqsUpTo(NativeTransfers, 1),
   fee : {0, 1}, programs : {{}, {"JUP4"}}, swap : BOOLEAN, feePayer : {"X"}]

\* ------------------------------------------------------- provider callers

\* new PQueue({ concurrency: 2, interval: 1000, intervalCap: 2 })
Concurrency == 2
IntervalCap == 2

\* The runs that call the provider at the same time. Each awaits one
\* getParsedTransactions call before it makes the next.
Callers ==
  {[component |-> "backfill", request |-> 1], [component |-> "backfill", request |-> 2],
   [component |-> "tail", request |-> 1], [component |-> "reconcile", request |-> 1],
   [component |-> "analyze", request |-> 1], [component |-> "analyze", request |-> 2]}

\* The HeliusClient instance a caller goes through: the indexer's
\* PaginationManager holds one, its ReconciliationManager another, and every
\* analysis request constructs its own.
ClientOf(c) ==
  IF c.component \in {"backfill", "tail"} THEN "PaginationManager"
  ELSE IF c.component = "reconcile" THEN "ReconciliationManager"
  ELSE IF c.request = 1 THEN "analyze1" ELSE "analyze2"

Clients == {ClientOf(c) : c \in Callers}

\* const CACHE_TTL_MS = 5 * 60 * 1000
CACHE_TTL_MS == 5 * 60 * 1000

\* new QuickLRU({ maxSize: 100 })
maxSize == 100

\* The steps the clock is advanced in, and how often.
TickMs == CACHE_TTL_MS \div 2
MaxTicks == 2

\* The number of runs started through analyzeOnce.
MaxRuns == 2

\* analyzeCache.ts as loaded: nothing in flight, nothing cached. `others`
\* counts the other wallets' results cached since this wallet's entry was
\* last set or read; lastSuccess remembers the last run that succeeded and
\* evicted whether the LRU has dropped its entry.
EmptyAnalyzeCache ==
  [inFlight |-> <<>>, cache |-> <<>>, runs |-> <<>>, now |-> 0, others |-> 0,
   lastSuccess |-> <<>>, evicted |-> FALSE]

\* A caller that is not inside a run.
IdleRun == [at |-> "idle", r |-> <<>>, outcome |-> ""]

\* ------------------------------------------------------------------- state

VARIABLES
  chain,      \* the upstream ledger: chain[sig] = [slot, shape], sig = 1..Len(chain)
  rawTx,      \* RawTransaction rows, unique by signature
  walletTx,   \* WalletEvent rows, unique by id = wallet_signature_index
  syncState,  \* SyncState row per wallet
  result,     \* what the call that just completed did and returned, until the caller takes it
  prev,       \* the last completed call, while the chain is as it was when it started
  lastCall,   \* what the last getParsedTransactions call received and returned
  scanned,    \* wallets for which a backfill run reached the end of the history
  pc,         \* where each caller of the provider client is with its call
  intervalCount, \* per client instance, the calls its queue started in this interval
  locals,     \* per caller, where its run is and the local variables it holds
  analyzeCache \* the analysis cache module: inFlight, cache, the runs started, the clock

vars == <<chain, rawTx, walletTx, syncState, result, prev, lastCall, scanned, pc, intervalCount,
         locals, analyzeCache>>

\* The transaction object the provider serves for signature sig.
Tx(sig) ==
  [signature |-> sig, slot |-> chain[sig].slot, timestamp |-> chain[sig].slot,
   shape |-> chain[sig].shape]

\* The payload of a transaction: the one it carries, or the one of its shape.
Shape(tx) == IF "payload" \in DOMAIN tx THEN tx.payload ELSE TxShapes[tx.shape]

\* The provider's address history of wallet w, newest first.
RECURSIVE HistoryUpTo(_, _)
HistoryUpTo(w, n) ==
  IF n = 0 THEN <<>>
  ELSE IF w \in Parties(TxShapes[chain[n].shape])
       THEN <<n>> \o HistoryUpTo(w, n - 1)
       ELSE HistoryUpTo(w, n - 1)

History(w) == HistoryUpTo(w, Len(chain))

IndexIn(s, x) == CHOOSE i \in 1..Len(s) : s[i] = x

\* The items strictly older than the cursor, at most PageSize of them.
ProviderPage(w, before) ==
  LET h == History(w)
      older == IF before = None THEN h
               ELSE IF Val(before) \in Range(h)
                    THEN SubSeq(h, IndexIn(h, Val(before)) + 1, Len(h))
                    ELSE <<>>
  IN SubSeq(older, 1, IF Len(older) < PageSize THEN Len(older) ELSE PageSize)

\* ------------------------------------------------------- provider client

\* What one HTTP attempt can be answered with besides 200.
FaultKinds == {"InvalidBefore", "Unauthorized", "NotFound", "RateLimit", "Server"}

StatusOf(kind) ==
  CASE kind = "InvalidBefore" -> 400
    [] kind = "Unauthorized" -> 400
    [] kind = "NotFound" -> 404
    [] kind = "RateLimit" -> 429
    [] kind = "Server" -> 503
    [] OTHER -> 200

\* The provider's answers to one call: the first n attempts fail with `kind`,
\* later attempts succeed.
NoFault == [kind |-> "None", n |-> 0]
FaultScripts == {NoFault} \cup [kind : FaultKinds, n : 1..MaxFaultRun]

\* A provider only rejects a cursor it was given.
ScriptsFor(before) ==
  {f \in FaultScripts : f.kind = "InvalidBefore" => before # None}

\* The answers the driver's calls are given: none failing, or one kind of
\* failure on every attempt (a rejected cursor, another 4xx, a 5xx).
OpScripts ==
  {NoFault} \cup [kind : {"InvalidBefore", "Unauthorized", "Server"}, n : {Retries + 1}]

ShouldRetryAll(status) == TRUE

\* p-retry option shouldRetry: no retry for an error with 400 <= status < 500.
ShouldRetry(status) == ~(status >= 400 /\ status < 500)

RetriesLeftOneMore(n) == n <= Retries + 1

\* p-retry option retries: after failed attempt n another one is made while
\* n <= retries, so a call makes at most 1 + retries attempts.
RetriesLeft(n) == n <= Retries

\* p-retry around one fetch: the statuses received, attempt by attempt. After a
\* failed attempt n the call is repeated while retries are left (n <= Retries)
\* and shouldRetry allows it.
RECURSIVE Attempts(_, _)
Attempts(script, n) ==
  LET st == IF n <= script.n THEN StatusOf(script.kind) ELSE 200
  IN IF st = 200 THEN <<200>>
     ELSE IF RetriesLeft(n) /\ ShouldRetry(st) THEN <<st>> \o Attempts(script, n + 1)
     ELSE <<st>>

NextBeforeFirst(items) == IF Len(items) > 0 THEN Some(items[1]) ELSE None

\* nextBefore: the signature of the last returned item, none for an empty page.
NextBefore(items) == IF Len(items) > 0 THEN Some(items[Len(items)]) ELSE None

\* HeliusClient.getParsedTransactions: resolves with {items, nextBefore} or
\* rejects with an ApiHttpError carrying the status and the message.
GetParsedTransactions(w, before, script) ==
  LET sts == Attempts(script, 1)
      last == sts[Len(sts)]
      items == IF last = 200 THEN ProviderPage(w, before) ELSE <<>>
  IN [ok |-> last = 200,
      status |-> last,
      invalidBefore |-> last # 200 /\ script.kind = "InvalidBefore",
      items |-> items,
      nextBefore |-> NextBefore(items),
      statuses |-> sts,
      pending |-> script.n]

NoCall ==
  [wallet |-> "", before |-> None, ok |-> TRUE, status |-> 0, statuses |-> <<>>,
   pending |-> 0, items |-> <<>>, nextBefore |-> None]

CallRecord(w, before, res) ==
  [wallet |-> w, before |-> before, ok |-> res.ok, status |-> res.status,
   statuses |-> res.statuses, pending |-> res.pending, items |-> res.items,
   nextBefore |-> res.nextBefore]

\* ------------------------------------------------------------- normalizer

\* The decimals the metadata resolver reports; 9 when it knows nothing.
Decimals(mint) ==
  CASE mint = "M1" -> 6
    [] mint = SOL_MINT -> SOL_DECIMALS
    [] OTHER -> FallbackDecimals

Symbol(mint) ==
  CASE mint = "M1" -> "TOK1"
    [] mint = SOL_MINT -> "SOL"
    [] OTHER -> "UNKNOWN"

Event(sig, ts, mint, decimals, qty, side) ==
  [sig |-> sig, ts |-> ts, mint |-> mint, decimals |-> decimals, qty |-> qty,
   side |-> side, feeLamports |-> None, linkId |-> None]

\* 1) SPL transfers -> BUY/SELL
RECURSIVE TokenLegs(_, _, _, _)
TokenLegs(ts, sig, time, wallet) ==
  IF ts = <<>> THEN <<>>
  ELSE LET t == Head(ts)
           from == Lower(t.fromUserAccount)
           to == Lower(t.toUserAccount)
           me == Lower(wallet)
           leg == IF t.mint = "" \/ t.tokenAmount = None THEN <<>>
                  ELSE IF from = me /\ to # me
                       THEN <<Event(sig, time, t.mint, Decimals(t.mint), 0 - Val(t.tokenAmount), "SELL")>>
                  ELSE IF to = me /\ from # me
                       THEN <<Event(sig, time, t.mint, Decimals(t.mint), Val(t.tokenAmount), "BUY")>>
                  ELSE <<>>
       IN leg \o TokenLegs(Tail(ts), sig, time, wallet)

\* 2) SOL transfers -> BUY/SELL SOL
RECURSIVE NativeLegs(_, _, _, _)
NativeLegs(ts, sig, time, wallet) ==
  IF ts = <<>> THEN <<>>
  ELSE LET t == Head(ts)
           from == Lower(t.fromUserAccount)
           to == Lower(t.toUserAccount)
           me == Lower(wallet)
           leg == IF t.amount = None THEN <<>>
                  ELSE IF from = me /\ to # me
                       THEN <<Event(sig, time, SOL_MINT, SOL_DECIMALS, 0 - Val(t.amount), "SELL")>>
                  ELSE IF to = me /\ from # me
                       THEN <<Event(sig, time, SOL_MINT, SOL_DECIMALS, Val(t.amount), "BUY")>>
                  ELSE <<>>
       IN leg \o NativeLegs(Tail(ts), sig, time, wallet)

isSwapTx(tx) ==
  LET sh == Shape(tx)
      tt == sh.tokenTransfers
      distinctMints == {tt[i].mint : i \in 1..Len(tt)} \ {""}
  IN \/ sh.swap
     \/ sh.programs \cap AMM_PROGRAMS # {}
     \/ (Cardinality(distinctMints) >= 2 /\ Len(tt) >= 2)

LinkSwapFirstTwo(tx, out) ==
  IF isSwapTx(tx) /\ Len(out) >= 2
  THEN [i \in 1..Len(out) |->
          IF i <= 2 THEN [out[i] EXCEPT !.linkId = Some(tx.signature)] ELSE out[i]]
  ELSE out

\* 3) the last two legs of a swap share one linkId
LinkSwap(tx, out) ==
  IF isSwapTx(tx) /\ Len(out) >= 2
  THEN [i \in 1..Len(out) |->
          IF i >= Len(out) - 1 THEN [out[i] EXCEPT !.linkId = Some(tx.signature)] ELSE out[i]]
  ELSE out

AttachFeeFirst(tx, out) ==
  IF Shape(tx).fee > 0 /\ Len(out) > 0
  THEN [out EXCEPT ![1].feeLamports = Some(Shape(tx).fee)]
  ELSE out

\* 4) the fee goes to the first SELL leg, else to the first leg
AttachFee(tx, out) ==
  LET fee == Shape(tx).fee
      sells == {i \in 1..Len(out) : out[i].side = "SELL"}
      target == IF sells # {} THEN SetMin(sells) ELSE 1
  IN IF fee > 0 /\ Len(out) > 0
     THEN [out EXCEPT ![target].feeLamports =
             Some((IF @ = None THEN 0 ELSE Val(@)) + fee)]
     ELSE out

\* TransactionNormalizer.normalize
normalize(tx, wallet) ==
  LET sh == Shape(tx)
      legs == TokenLegs(sh.tokenTransfers, tx.signature, tx.timestamp, wallet)
              \o NativeLegs(sh.nativeTransfers, tx.signature, tx.timestamp, wallet)
  IN AttachFee(tx, LinkSwap(tx, legs))

\* TransactionNormalizer.normalizeTransactions: the events of all the
\* transactions of the batch, concatenated in batch order.
RECURSIVE normalizeTransactions(_, _)
normalizeTransactions(items, wallet) ==
  IF items = <<>> THEN <<>>
  ELSE normalize(Tx(Head(items)), wallet) \o normalizeTransactions(Tail(items), wallet)

\* ------------------------------------------------------------ persistence

\* The row persistWalletEvents builds for the event at position index (from 0)
\* of the array it is given.
WalletTxRow(event, index, wallet) ==
  [wallet |-> wallet, signature |-> event.sig, index |-> index, slot |-> 0,
   blockTime |-> event.ts,
   program |-> IF event.linkId # None THEN "SWAP" ELSE "TRANSFER",
   type |-> event.side, tokenMint |-> event.mint, tokenSymbol |-> Symbol(event.mint),
   tokenDecimals |-> event.decimals, amountRaw |-> event.qty,
   feeLamports |-> event.feeLamports, linkId |-> event.linkId]

RowId(r) == <<r.wallet, r.signature, r.index>>

\* prisma.walletTx.upsert({ where: { id } })
UpsertWalletTx(rows, row) == {r \in rows : RowId(r) # RowId(row)} \cup {row}

RECURSIVE UpsertEventsFrom(_, _, _, _)
UpsertEventsFrom(rows, events, i, wallet) ==
  IF i > Len(events) THEN rows
  ELSE UpsertEventsFrom(UpsertWalletTx(rows, WalletTxRow(events[i], i - 1, wallet)),
                        events, i + 1, wallet)

\* TransactionNormalizer.persistWalletEvents
persistWalletEvents(rows, events, wallet) == UpsertEventsFrom(rows, events, 1, wallet)

RawTxRow(tx) ==
  [signature |-> tx.signature, slot |-> tx.slot, blockTime |-> tx.timestamp,
   json |-> tx.shape]

\* prisma.rawTx.upsert({ where: { signature } })
UpsertRawTx(rows, row) == {r \in rows : r.signature # row.signature} \cup {row}

\* TransactionNormalizer.persistRawTransactions
RECURSIVE persistRawTransactions(_, _)
persistRawTransactions(rows, items) ==
  IF items = <<>> THEN rows
  ELSE persistRawTransactions(UpsertRawTx(rows, RawTxRow(Tx(Head(items)))), Tail(items))

RawSignatures == {r.signature : r \in rawTx}

\* ------------------------------------------------------------- sync state

NoSyncState ==
  [exists |-> FALSE, lastBefore |-> None, verifiedSlot |-> None, fullScanAt |-> FALSE]

\* prisma.syncState.create in backfillWallet
NewSyncState ==
  [exists |-> TRUE, lastBefore |-> None, verifiedSlot |-> None, fullScanAt |-> FALSE]

ZeroStats ==
  [pagesFetched |-> 0, rawTxCount |-> 0, walletTxCount |-> 0, retryCount |-> 0,
   lastBefore |-> None, verifiedSlot |-> None, firstSlot |-> None, lastSlot |-> None]

Slots(items) == {Tx(items[i]).slot : i \in 1..Len(items)}

\* The maxPages arguments backfillWallet is called with: 0 is "not given".
MaxPagesArgs == {0, 1}

\* const maxPagesLimit = maxPages || parseInt(process.env.MAX_PAGES || '1000')
maxPagesLimit(maxPages) == IF maxPages = 0 THEN DefaultMaxPages ELSE maxPages

\* const result: ReconcileResult = {...} as reconcileSlotRange initialises it
InitialReconcileResult(w, fromSlot, toSlot) ==
  [wallet |-> w, fromSlot |-> fromSlot, toSlot |-> toSlot, countRaw |-> 0,
   countWalletTx |-> 0, hash |-> <<>>, ok |-> FALSE, missingSignatures |-> <<>>]

NoReconcileResult == InitialReconcileResult("", 0, 0)

\* No call has completed, or its caller has taken the result.
NoResult ==
  [op |-> "none", wallet |-> "", ok |-> TRUE, error |-> "", stats |-> ZeroStats,
   calls |-> 0, lookups |-> 0, rawSame |-> TRUE, eventsSame |-> TRUE,
   invalidBefores |-> 0, fatal |-> 0, exhausted |-> FALSE, maxPages |-> 0,
   backToBack |-> FALSE, prevExhausted |-> FALSE, fullScanMarked |-> FALSE,
   verifiedBefore |-> None, trace |-> <<>>, storeError |-> FALSE,
   rec |-> NoReconcileResult, audits |-> <<>>, log |-> <<>>,
   results |-> <<>>, chunks |-> <<>>,
   activities |-> <<>>, oracle |-> <<>>, priced |-> FALSE,
   positions |-> [aborted |-> FALSE, tokens |-> <<>>, summary |-> <<>>],
   tx |-> <<>>, events |-> <<>>, fresh |-> FALSE]

NoPrev == [op |-> "none", wallet |-> "", exhausted |-> FALSE]

Init ==
  /\ chain = <<>>
  /\ rawTx = {}
  /\ walletTx = {}
  /\ syncState = [w \in Wallets |-> NoSyncState]
  /\ result = NoResult
  /\ prev = NoPrev
  /\ lastCall = NoCall
  /\ scanned = {}
  /\ pc = [c \in Callers |-> "idle"]
  /\ intervalCount = [q \in Clients |-> 0]
  /\ locals = [c \in Callers |-> IdleRun]
  /\ analyzeCache = EmptyAnalyzeCache

\* ---------------------------------------------------------------- upstream

\* A new transaction lands on the chain; its slot is higher than every slot
\* before it, and the provider lists it first in its parties' histories.
AddTx(shape) ==
  /\ result.op = "none"
  /\ Len(chain) < MaxTx
  /\ chain' = Append(chain, [slot |-> Len(chain) + 1, shape |-> shape])
  /\ prev' = NoPrev
  /\ UNCHANGED <<rawTx, walletTx, syncState, result, lastCall, scanned, pc, intervalCount, locals,
                 analyzeCache>>

\* The indexer ingests, for another wallet, a new transaction this wallet has
\* no part in: its raw row enters the shared RawTx table.
IngestOther(shape) ==
  /\ result.op = "none"
  /\ Len(chain) < MaxTx
  /\ \A r \in rawTx : r.json \notin OtherShapeIds
  /\ chain' = Append(chain, [slot |-> Len(chain) + 1, shape |-> shape])
  /\ rawTx' = UpsertRawTx(rawTx, [signature |-> Len(chain) + 1, slot |-> Len(chain) + 1,
                                   blockTime |-> Len(chain) + 1, json |-> shape])
  /\ prev' = NoPrev
  /\ UNCHANGED <<walletTx, syncState, result, lastCall, scanned, pc, intervalCount, locals,
                 analyzeCache>>

\* The caller takes the result of the completed call.
Return ==
  /\ result.op # "none"
  /\ result' = NoResult
  /\ UNCHANGED <<chain, rawTx, walletTx, syncState, prev, lastCall, scanned, pc, intervalCount, locals,
                 analyzeCache>>

\* ---------------------------------------------------------------- backfill

\* The local variables of backfillWallet at the head of its page loop, with the
\* store as the run has written it so far.
BackfillLocals(w, maxPages, storeFaults, scripts) ==
  [wallet |-> w, storeFaults |-> storeFaults, scripts |-> scripts, storeError |-> FALSE,
   sync |-> IF syncState[w].exists THEN syncState[w] ELSE NewSyncState,
   before |-> syncState[w].lastBefore,
   cursorReset |-> FALSE, page |-> 1, maxPages |-> maxPagesLimit(maxPages),
   stats |-> ZeroStats, calls |-> 0, invalidBefores |-> 0, trace |-> <<>>,
   raw |-> rawTx, events |-> walletTx,
   done |-> FALSE, exhausted |-> FALSE, fatal |-> 0]

\* The cursor written to SyncState.lastBefore after a page.
SavedCursorFirst(items, nextBefore) == Some(Head(items))

SavedCursor(items, nextBefore) == nextBefore

\* break
Break(r, exhausted, fatal) ==
  [r EXCEPT !.done = TRUE, !.exhausted = exhausted, !.fatal = fatal]

\* continue: the loop ends when page > maxPagesLimit
Continue(r) ==
  IF r.page + 1 <= r.maxPages THEN [r EXCEPT !.page = @ + 1]
  ELSE [r EXCEPT !.page = @ + 1, !.done = TRUE]

\* One getParsedTransactions call of the page loop: the cursor it was given
\* and what came back.
PageCall(before, res) ==
  [before |-> before, ok |-> res.ok, invalidBefore |-> res.invalidBefore,
   items |-> res.items, nextBefore |-> res.nextBefore]

\* Where the store can fail while a page is persisted: nowhere, at the
\* rawTx.upsert of the page's last item, or at the walletTx.upsert of its last event.
StoreFaults == {"none", "raw", "events"}

AllButLast(s) == SubSeq(s, 1, Len(s) - 1)

\* One iteration of the page loop of backfillWallet, the provider answering
\* as the script says and the store failing where the fault says.
BackfillPage(r, script, fault) ==
  LET res == GetParsedTransactions(r.wallet, r.before, script)
      called == [r EXCEPT !.calls = @ + 1,
                          !.trace = Append(@, PageCall(r.before, res))]
  IN IF res.ok
     THEN LET items == res.items
              events == normalizeTransactions(items, r.wallet)
              st == [called.stats EXCEPT
                       !.pagesFetched = @ + 1,
                       !.rawTxCount = @ + Len(items),
                       !.firstSlot = IF @ = None THEN Some(MathMax(Slots(items))) ELSE @,
                       !.lastSlot = Some(MathMin(Slots(items))),
                       !.walletTxCount = @ + Len(events)]
              r2 == [called EXCEPT
                       !.stats = st,
                       !.raw = persistRawTransactions(@, items),
                       !.events = persistWalletEvents(@, events, r.wallet)]
              counted == [st EXCEPT !.walletTxCount = called.stats.walletTxCount]
          IN IF fault = "raw" /\ Len(items) > 0
             \* persistRawTransactions throws: caught by the page's catch, break
             THEN Break([called EXCEPT
                           !.stats = counted, !.storeError = TRUE,
                           !.raw = persistRawTransactions(@, AllButLast(items))],
                        FALSE, 0)
             ELSE IF fault = "events" /\ Len(events) > 0
             \* persistWalletEvents throws after the raw rows are written
             THEN Break([called EXCEPT
                           !.stats = counted, !.storeError = TRUE,
                           !.raw = persistRawTransactions(@, items),
                           !.events = persistWalletEvents(@, AllButLast(events), r.wallet)],
                        FALSE, 0)
             ELSE IF Len(items) = 0 THEN Break(r2, TRUE, 0)
             ELSE IF res.nextBefore # None
             THEN Continue([r2 EXCEPT
                              !.before = res.nextBefore,
                              !.sync.lastBefore = SavedCursor(items, res.nextBefore),
                              !.stats.lastBefore = res.nextBefore])
             ELSE Break(r2, FALSE, 0)
     ELSE IF res.status = 400 /\ res.invalidBefore /\ ~r.cursorReset
          \* page--; continue: the same page again, without the cursor
          THEN [called EXCEPT !.before = None, !.cursorReset = TRUE,
                              !.invalidBefores = @ + 1]
          ELSE Break([called EXCEPT !.invalidBefores =
                                      IF res.invalidBefore THEN @ + 1 ELSE @],
                     FALSE, res.status)

\* Every way the page loop can run to its end from r, over the provider's answers.
RECURSIVE BackfillRuns(_)
BackfillRuns(r) ==
  IF r.done THEN {r}
  ELSE UNION {UNION {BackfillRuns(BackfillPage(r, script, fault)) :
                       fault \in IF script = NoFault THEN r.storeFaults ELSE {"none"}} :
                script \in r.scripts \cap ScriptsFor(r.before)}

\* What backfillWallet gives its caller after the loop.
BackfillResult(fin) ==
  [NoResult EXCEPT
     !.op = "backfill", !.wallet = fin.wallet, !.ok = TRUE, !.stats = fin.stats,
     !.calls = fin.calls, !.invalidBefores = fin.invalidBefores, !.fatal = fin.fatal,
     !.exhausted = fin.exhausted, !.maxPages = fin.maxPages, !.trace = fin.trace,
     !.storeError = fin.storeError,
     !.rawSame = (fin.raw = rawTx), !.eventsSame = (fin.events = walletTx),
     !.backToBack = (prev.op = "backfill" /\ prev.wallet = fin.wallet),
     !.prevExhausted = prev.exhausted,
     \* the update after the loop is unconditional
     !.fullScanMarked = TRUE]

\* PaginationManager.backfillWallet, over a store that can fail as storeFaults
\* says and a provider that can answer as scripts says
Backfill(w, maxPages, storeFaults, scripts) ==
  /\ result.op = "none"
  /\ \E fin \in BackfillRuns(BackfillLocals(w, maxPages, storeFaults, scripts)) :
       /\ rawTx' = fin.raw
       /\ walletTx' = fin.events
       \* Mark full scan as complete
       /\ syncState' = [syncState EXCEPT ![w] = [fin.sync EXCEPT !.fullScanAt = TRUE]]
       /\ result' = BackfillResult(fin)
       /\ prev' = [op |-> "backfill", wallet |-> w, exhausted |-> fin.exhausted]
       /\ scanned' = IF fin.exhausted THEN scanned \cup {w} ELSE scanned
  /\ UNCHANGED <<chain, lastCall, pc, intervalCount, locals,
                 analyzeCache>>

\* PaginationManager.backfillWallet over a store that does not fail
BackfillWallet(w, maxPages) == Backfill(w, maxPages, {"none"}, OpScripts)

\* PaginationManager.backfillWallet over a store that can fail
BackfillWalletStoreFaults(w, maxPages) == Backfill(w, maxPages, StoreFaults, OpScripts)

\* PaginationManager.backfillWallet with neither the provider nor the store failing
BackfillWalletNoFaults(w, maxPages) == Backfill(w, maxPages, {"none"}, {NoFault})

\* --------------------------------------------------------------- tail sync

\* The loop of syncTail over the page: the items before the first one whose
\* signature rawTx.findUnique finds.
RECURSIVE NewTransactionsThrough(_, _)
NewTransactionsThrough(items, existing) ==
  IF items = <<>> THEN <<>>
  ELSE IF Head(items) \in existing THEN <<Head(items)>>
  ELSE <<Head(items)>> \o NewTransactionsThrough(Tail(items), existing)

RECURSIVE NewTransactions(_, _)
NewTransactions(items, existing) ==
  IF items = <<>> THEN <<>>
  ELSE IF Head(items) \in existing THEN <<>>
  ELSE <<Head(items)>> \o NewTransactions(Tail(items), existing)

\* The number of rawTx.findUnique calls that loop makes.
RECURSIVE FindUniqueCalls(_, _)
FindUniqueCalls(items, existing) ==
  IF items = <<>> THEN 0
  ELSE IF Head(items) \in existing THEN 1
  ELSE 1 + FindUniqueCalls(Tail(items), existing)

HasSyncStateAlways(w) == TRUE

\* const syncState = await prisma.syncState.findUnique(...); if (!syncState) throw
HasSyncState(w) == syncState[w].exists

VerifiedSlotLowest(slots) == SetMin(slots)

\* const highestSlot = Math.max(...slots)
VerifiedSlotUpdate(slots) == SetMax(slots)

\* PaginationManager.syncTail
SyncTail(w, script) ==
  /\ result.op = "none"
  /\ script \in ScriptsFor(None)
  /\ prev' = NoPrev
  /\ LET base == [NoResult EXCEPT !.op = "syncTail", !.wallet = w,
                                  !.verifiedBefore = syncState[w].verifiedSlot]
     IN IF ~HasSyncState(w)
        THEN /\ result' = [base EXCEPT !.ok = FALSE, !.error = "RunBackfillFirst"]
             /\ UNCHANGED <<rawTx, walletTx, syncState>>
        ELSE LET res == GetParsedTransactions(w, None, script)
                 called == [base EXCEPT !.calls = 1]
             IN IF ~res.ok
                THEN /\ result' = [called EXCEPT !.ok = FALSE, !.error = "Http",
                                                 !.fatal = res.status]
                     /\ UNCHANGED <<rawTx, walletTx, syncState>>
                ELSE IF Len(res.items) = 0
                THEN /\ result' = called
                     /\ UNCHANGED <<rawTx, walletTx, syncState>>
                ELSE LET new == NewTransactions(res.items, RawSignatures)
                         looked == [called EXCEPT
                                      !.lookups = FindUniqueCalls(res.items, RawSignatures)]
                     IN IF Len(new) = 0
                        THEN /\ result' = looked
                             /\ UNCHANGED <<rawTx, walletTx, syncState>>
                        ELSE LET events == normalizeTransactions(new, w)
                                 raw2 == persistRawTransactions(rawTx, new)
                                 ev2 == persistWalletEvents(walletTx, events, w)
                                 highestSlot == VerifiedSlotUpdate(Slots(new))
                             IN /\ rawTx' = raw2
                                /\ walletTx' = ev2
                                /\ syncState' = [syncState EXCEPT
                                      ![w].verifiedSlot = Some(highestSlot)]
                                /\ result' = [looked EXCEPT
                                     !.stats = [ZeroStats EXCEPT
                                        !.pagesFetched = 1,
                                        !.rawTxCount = Len(new),
                                        !.firstSlot = Some(MathMax(Slots(new))),
                                        !.lastSlot = Some(MathMin(Slots(new))),
                                        !.walletTxCount = Len(events),
                                        !.verifiedSlot = Some(highestSlot)],
                                     !.rawSame = (raw2 = rawTx),
                                     !.eventsSame = (ev2 = walletTx)]
  /\ UNCHANGED <<chain, lastCall, scanned, pc, intervalCount, locals,
                 analyzeCache>>

\* ----------------------------------------------------------- reconciliation

\* Array.prototype.sort on a set of signatures: ascending.
RECURSIVE SortedSeq(_)
SortedSeq(S) ==
  IF S = {} THEN <<>> ELSE <<SetMin(S)>> \o SortedSeq(S \ {SetMin(S)})

computeSignatureHashOfNothing(signatures) == <<>>

\* computeSignatureHash: sha256 of the sorted signatures joined; two lists
\* have one hash exactly when their sorted joins are the same.
computeSignatureHash(signatures) == SortedSeq(Range(signatures))

InRange(slot, fromSlot, toSlot) == slot >= fromSlot /\ slot <= toSlot

RECURSIVE FilterInRange(_, _, _)
FilterInRange(items, fromSlot, toSlot) ==
  IF items = <<>> THEN <<>>
  ELSE (IF InRange(Tx(Head(items)).slot, fromSlot, toSlot) THEN <<Head(items)>> ELSE <<>>)
       \o FilterInRange(Tail(items), fromSlot, toSlot)

\* One iteration of the loop of fetchTransactionsInSlotRange.
FetchPage(f, script) ==
  LET res == GetParsedTransactions(f.wallet, f.before, script)
  IN IF ~res.ok THEN [f EXCEPT !.done = TRUE, !.ok = FALSE, !.status = res.status]
     ELSE IF Len(res.items) = 0 THEN [f EXCEPT !.done = TRUE]
     ELSE LET all == f.all \o FilterInRange(res.items, f.fromSlot, f.toSlot)
          IN IF MathMin(Slots(res.items)) < f.fromSlot
             THEN [f EXCEPT !.all = all, !.done = TRUE]
             ELSE [f EXCEPT !.all = all, !.before = res.nextBefore]

\* The answers the calls of fetchTransactionsInSlotRange are given: none
\* failing, or a 5xx on every attempt; it treats every failure alike.
FetchScripts == {NoFault, [kind |-> "Server", n |-> Retries + 1]}

\* Every way fetchTransactionsInSlotRange can run, over the provider's answers.
RECURSIVE FetchRuns(_)
FetchRuns(f) ==
  IF f.done THEN {f}
  ELSE UNION {FetchRuns(FetchPage(f, script)) : script \in FetchScripts}

fetchTransactionsInSlotRange(w, fromSlot, toSlot) ==
  FetchRuns([wallet |-> w, fromSlot |-> fromSlot, toSlot |-> toSlot, before |-> None,
             all |-> <<>>, done |-> FALSE, ok |-> TRUE, status |-> 0])

\* prisma.rawTx.findMany({ where: { slot: { gte, lte } } }), sorted
StoredSignatures(rows, fromSlot, toSlot) ==
  SortedSeq({r.signature : r \in {x \in rows : InRange(x.slot, fromSlot, toSlot)}})

\* prisma.walletTx.findMany({ where: { wallet, slot: { gte, lte } } })
StoredWalletEvents(rows, w, fromSlot, toSlot) ==
  {r \in rows : r.wallet = w /\ InRange(r.slot, fromSlot, toSlot)}

MissingAll(sigs, stored) == sigs

\* heliusSignatures.filter(sig => !storedSigSet.has(sig))
RECURSIVE Missing(_, _)
Missing(sigs, stored) ==
  IF sigs = <<>> THEN <<>>
  ELSE (IF Head(sigs) \in stored THEN <<>> ELSE <<Head(sigs)>>) \o Missing(Tail(sigs), stored)

RecordAuditFirst(log) == <<"audit">> \o log

\* recordAudit: the row is created when it is called.
RecordAudit(log) == Append(log, "audit")

\* The ReconcileAudit row recordAudit writes for a result.
AuditRow(res) ==
  [wallet |-> res.wallet, fromSlot |-> res.fromSlot, toSlot |-> res.toSlot,
   countRaw |-> res.countRaw, countWalletTx |-> res.countWalletTx,
   hash |-> res.hash, ok |-> res.ok]

Writes(n, tag) == [i \in 1..n |-> tag]

\* reconcileSlotRange once the provider's transactions are fetched, or the
\* fetch has failed: the store and the result it leaves.
ReconcileOutcomeOn(raw0, ev0, w, fromSlot, toSlot, fetch, fault) ==
  LET init == InitialReconcileResult(w, fromSlot, toSlot)
      heliusSignatures == SortedSeq(Range(fetch.all))
      storedSignatures == StoredSignatures(raw0, fromSlot, toSlot)
      heliusHash == computeSignatureHash(heliusSignatures)
      storedHash == computeSignatureHash(storedSignatures)
      missing == Missing(heliusSignatures, Range(storedSignatures))
      first == [init EXCEPT
                  !.countRaw = Len(storedSignatures),
                  !.countWalletTx = Cardinality(StoredWalletEvents(ev0, w, fromSlot, toSlot)),
                  !.hash = storedHash,
                  !.missingSignatures = missing,
                  !.ok = (heliusHash = storedHash /\ Len(missing) = 0)]
      missingTransactions == Missing(fetch.all, Range(storedSignatures))
      events == normalizeTransactions(missingTransactions, w)
      raw2 == persistRawTransactions(raw0, missingTransactions)
      ev2 == persistWalletEvents(ev0, events, w)
      updated == StoredSignatures(raw2, fromSlot, toSlot)
      hash2 == computeSignatureHash(updated)
      out(rec, raw, ev, thrown, status, writes, audited, error) ==
        [rec |-> rec, raw |-> raw, events |-> ev, thrown |-> thrown, status |-> status,
         audits |-> IF audited THEN <<AuditRow(rec)>> ELSE <<>>,
         log |-> IF audited THEN RecordAudit(writes) ELSE writes,
         error |-> error]
      \* the catch block: recordAudit(result), then rethrow
      caught(rec, raw, ev, status, writes, error) ==
        IF fault = "auditDown" THEN out(rec, raw, ev, TRUE, 0, writes, FALSE, "Audit")
        ELSE out(rec, raw, ev, TRUE, status, writes, TRUE, error)
      \* recordAudit(result) at the end of the try block, then return
      finish(rec, raw, ev, writes) ==
        IF fault \in {"audit", "auditDown"} THEN caught(rec, raw, ev, 0, writes, "Audit")
        ELSE out(rec, raw, ev, FALSE, 0, writes, TRUE, "")
  IN IF ~fetch.ok THEN caught(init, raw0, ev0, fetch.status, <<>>, "Http")
     ELSE IF fault = "query" THEN caught(init, raw0, ev0, 0, <<>>, "Store")
     ELSE IF Len(missing) = 0 THEN finish(first, raw0, ev0, <<>>)
     ELSE IF fault = "raw"
     THEN caught(first, persistRawTransactions(raw0, AllButLast(missingTransactions)),
                 ev0, 0, Writes(Len(missingTransactions) - 1, "raw"), "Store")
     ELSE IF fault = "events" /\ Len(events) > 0
     THEN caught(first, raw2, persistWalletEvents(ev0, AllButLast(events), w), 0,
                 Writes(Len(missingTransactions), "raw") \o Writes(Len(events) - 1, "event"),
                 "Store")
     ELSE finish([first EXCEPT !.hash = hash2, !.ok = (heliusHash = hash2)],
                 raw2, ev2,
                 Writes(Len(missingTransactions), "raw") \o Writes(Len(events), "event"))

\* reconcileSlotRange against the store as it stands.
ReconcileOutcome(w, fromSlot, toSlot, fetch, fault) ==
  ReconcileOutcomeOn(rawTx, walletTx, w, fromSlot, toSlot, fetch, fault)

\* The store failures a reconciliation is run against: none; the first query
\* throws; the raw upsert of the last missing transaction throws; the creation
\* of the audit row at the end of the try block throws; every creation of an
\* audit row throws.
ReconcileStoreFaults == {"none", "query", "raw", "audit", "auditDown"}

\* ReconciliationManager.reconcileSlotRange
ReconcileSlotRange(w, fromSlot, toSlot) ==
  /\ result.op = "none"
  /\ fromSlot <= toSlot
  /\ \E o \in {ReconcileOutcome(w, fromSlot, toSlot, fetch, fault) :
                   fetch \in fetchTransactionsInSlotRange(w, fromSlot, toSlot),
                   fault \in ReconcileStoreFaults} :
          /\ rawTx' = o.raw
          /\ walletTx' = o.events
          /\ result' = [NoResult EXCEPT
                !.op = "reconcile", !.wallet = w, !.ok = ~o.thrown,
                !.error = o.error,
                !.fatal = o.status, !.storeError = (o.thrown /\ o.status = 0),
                !.rawSame = (o.raw = rawTx), !.eventsSame = (o.events = walletTx),
                !.rec = o.rec, !.audits = o.audits, !.log = o.log]
  /\ prev' = NoPrev
  /\ UNCHANGED <<chain, syncState, lastCall, scanned, pc, intervalCount, locals,
                 analyzeCache>>

\* ------------------------------------------------------- recent slots

ChunkSize == 1000

DefaultSlotCount == 10000

\* A new transaction of the wallet lands gap slots after the newest one.
AddTxAt(shape, gap) ==
  /\ result.op = "none"
  /\ Len(chain) < MaxTx
  /\ chain' = Append(chain, [slot |-> (IF chain = <<>> THEN 0 ELSE chain[Len(chain)].slot) + gap,
                             shape |-> shape])
  /\ prev' = NoPrev
  /\ UNCHANGED <<rawTx, walletTx, syncState, result, lastCall, scanned, pc, intervalCount, locals,
                 analyzeCache>>

ChunkEndUncapped(start, latestSlot) == start + ChunkSize - 1

\* const end = Math.min(start + chunkSize - 1, latestSlot)
ChunkEnd(start, latestSlot) == SetMin({start + ChunkSize - 1, latestSlot})

\* The store failures the chunks of a recent-slots run are run against.
RecentStoreFaults == {"none", "raw"}

\* One iteration of the loop of reconcileRecentSlots: reconcileSlotRange on
\* the chunk has had outcome o.
RecentChunk(r, end, o) ==
  [r EXCEPT !.raw = o.raw, !.events = o.events,
            !.chunks = Append(@, <<r.start, end>>),
            !.audits = @ \o o.audits,
            !.results = IF o.thrown THEN <<>> ELSE Append(@, o.rec),
            !.thrown = o.thrown, !.error = o.error, !.done = o.thrown,
            !.start = r.start + ChunkSize]

\* Every way the loop of reconcileRecentSlots can run.
RECURSIVE RecentRuns(_)
RecentRuns(r) ==
  IF r.done THEN {r}
  ELSE IF ~(r.start <= r.latestSlot) THEN {[r EXCEPT !.done = TRUE]}
  ELSE LET end == ChunkEnd(r.start, r.latestSlot)
       IN UNION {RecentRuns(RecentChunk(r, end, o)) :
                   o \in {ReconcileOutcomeOn(r.raw, r.events, r.wallet, r.start, end, fetch, fault) :
                            fetch \in fetchTransactionsInSlotRange(r.wallet, r.start, end),
                            fault \in RecentStoreFaults}}

\* !syncState || !syncState.verifiedSlot, negated: a slot of 0 is falsy
VerifiedSlotTruthy(row) ==
  row.exists /\ row.verifiedSlot # None /\ Val(row.verifiedSlot) # 0

\* ReconciliationManager.reconcileRecentSlots
ReconcileRecentSlots(w, slotCount) ==
  /\ result.op = "none"
  /\ IF ~VerifiedSlotTruthy(syncState[w])
     THEN /\ result' = [NoResult EXCEPT !.op = "recent", !.wallet = w, !.ok = FALSE,
                                         !.error = "NoVerifiedSlot",
                                         !.verifiedBefore = syncState[w].verifiedSlot,
                                         !.maxPages = slotCount]
          /\ UNCHANGED <<rawTx, walletTx>>
     ELSE LET latestSlot == Val(syncState[w].verifiedSlot)
              fromSlot == SetMax({0, latestSlot - slotCount})
          IN \E r \in RecentRuns([wallet |-> w, latestSlot |-> latestSlot, start |-> fromSlot,
                                   raw |-> rawTx, events |-> walletTx, chunks |-> <<>>,
                                   audits |-> <<>>, results |-> <<>>, thrown |-> FALSE,
                                   error |-> "", done |-> FALSE]) :
               /\ rawTx' = r.raw
               /\ walletTx' = r.events
               /\ result' = [NoResult EXCEPT
                     !.op = "recent", !.wallet = w, !.ok = ~r.thrown, !.error = r.error,
                     !.verifiedBefore = syncState[w].verifiedSlot, !.maxPages = slotCount,
                     !.rawSame = (r.raw = rawTx), !.eventsSame = (r.events = walletTx),
                     !.audits = r.audits, !.results = r.results, !.chunks = r.chunks]
  /\ prev' = NoPrev
  /\ UNCHANGED <<chain, syncState, lastCall, scanned, pc, intervalCount, locals,
                 analyzeCache>>

\* ----------------------------------------------------------- the indexer

\* SolanaIndexer.backfillWallet with neither the provider nor the store
\* failing during the backfill: paginationManager.backfillWallet, then
\* reconciliationManager.reconcileRecentSlots(wallet, 10000), whose error is
\* rethrown.
IndexerBackfillWallet(w, maxPages) ==
  /\ result.op = "none"
  /\ \E fin \in BackfillRuns(BackfillLocals(w, maxPages, {"none"}, {NoFault})) :
     \E sync \in {[fin.sync EXCEPT !.fullScanAt = TRUE]} :
       /\ syncState' = [syncState EXCEPT ![w] = sync]
       /\ scanned' = IF fin.exhausted THEN scanned \cup {w} ELSE scanned
       /\ IF ~VerifiedSlotTruthy(sync)
          THEN /\ rawTx' = fin.raw
               /\ walletTx' = fin.events
               /\ result' = [BackfillResult(fin) EXCEPT
                     !.op = "indexerBackfill", !.ok = FALSE, !.error = "NoVerifiedSlot",
                     !.verifiedBefore = sync.verifiedSlot,
                     !.fresh = ~syncState[w].exists]
          ELSE \E r \in RecentRuns(
                    [wallet |-> w, latestSlot |-> Val(sync.verifiedSlot),
                     start |-> SetMax({0, Val(sync.verifiedSlot) - DefaultSlotCount}),
                     raw |-> fin.raw, events |-> fin.events, chunks |-> <<>>,
                     audits |-> <<>>, results |-> <<>>, thrown |-> FALSE,
                     error |-> "", done |-> FALSE]) :
                 /\ rawTx' = r.raw
                 /\ walletTx' = r.events
                 /\ result' = [BackfillResult(fin) EXCEPT
                       !.op = "indexerBackfill", !.ok = ~r.thrown, !.error = r.error,
                       !.verifiedBefore = sync.verifiedSlot,
                       !.audits = r.audits, !.results = r.results, !.chunks = r.chunks,
                       !.fresh = ~syncState[w].exists]
  /\ prev' = NoPrev
  /\ UNCHANGED <<chain, lastCall, pc, intervalCount, locals, analyzeCache>>

\* ---------------------------------------------------- position reconstructor

\* Quantities are counted in millionths of a token, so that the 0.000001 of
\* the lot-closing test is one unit; dollar amounts are counted in units of
\* 10^-9 dollar, so that a fee of feeLamports / 10^9 SOL has a whole price.
Epsilon == 1

\* One unit of quantity times a price of one dollar, in units of 10^-9 dollar.
QtyPriceUnit == 1000

Abs(x) == IF x < 0 THEN 0 - x ELSE x

Min2(a, b) == IF a <= b THEN a ELSE b

Max2(a, b) == IF a >= b THEN a ELSE b

\* The places where the reconstructor consults the price oracle, and what the
\* oracle does there in one run: answer, answer with nothing, or fail.
OraclePoints == {"buy", "sell", "fee", "peak", "current"}

OracleOk == [p \in OraclePoints |-> "ok"]

Oracles == {OracleOk} \cup {[OracleOk EXCEPT ![p] = m] : p \in OraclePoints, m \in {"empty", "throw"}}

\* priceService.getCandles over a window that starts at start.
GetCandles(oracle, point, start) ==
  IF oracle[point] = "ok"
  THEN <<[t |-> start, h |-> 5, c |-> 2], [t |-> start + 1, h |-> 10, c |-> 3]>>
  ELSE <<>>

\* candles.length > 0 ? candles[0].c : 0
CloseOrZero(candles) == IF Len(candles) > 0 THEN candles[1].c ELSE 0

\* candles.reduce((max, candle) => candle.h > max.h ? candle : max)
RECURSIVE PeakCandle(_)
PeakCandle(candles) ==
  IF Len(candles) = 1 THEN candles[1]
  ELSE LET max == PeakCandle(SubSeq(candles, 1, Len(candles) - 1))
           candle == candles[Len(candles)]
       IN IF candle.h > max.h THEN candle ELSE max

\* The Lot a BUY creates.
NewLot(tokenMint, activity, priceAtTx) ==
  [lotId |-> <<activity.sig, activity.ts>>, tokenMint |-> tokenMint,
   buyTime |-> activity.ts, buyQty |-> Abs(activity.qty), buyCostUsd |-> priceAtTx,
   remainingQty |-> Abs(activity.qty), matchedSells |-> <<>>, realizedUsd |-> 0,
   peakTimestamp |-> None, peakPriceUsd |-> None, peakPotentialUsd |-> 0,
   regretGapUsd |-> 0]

RemainingAfterKeep(remainingQty, matchQty) == remainingQty

\* lot.remainingQty -= matchQty
RemainingAfter(remainingQty, matchQty) == remainingQty - matchQty

MatchQtyAll(remainingSellQty, remainingQty) == remainingSellQty

\* const matchQty = Math.min(remainingSellQty, lot.remainingQty)
MatchQty(remainingSellQty, remainingQty) == Min2(remainingSellQty, remainingQty)

\* The while loop of a SELL: st.open lists the positions in st.lots of the
\* open lots, front first.
RECURSIVE SellLoop(_, _, _, _)
SellLoop(st, activity, remainingSellQty, oracle) ==
  IF st.aborted \/ ~(remainingSellQty > 0 /\ Len(st.open) > 0) THEN st
  ELSE LET k == Head(st.open)
           lot == st.lots[k]
           matchQty == MatchQty(remainingSellQty, lot.remainingQty)
           sellPrice == CloseOrZero(GetCandles(oracle, "sell", activity.ts))
           hasFee == activity.feeLamports # None /\ Val(activity.feeLamports) > 0
           solPrice == CloseOrZero(GetCandles(oracle, "fee", activity.ts))
           proceedsUsd == QtyPriceUnit * matchQty * sellPrice
                          - (IF hasFee THEN Val(activity.feeLamports) * solPrice ELSE 0)
           lot2 == [lot EXCEPT
                      !.matchedSells = Append(@, [time |-> activity.ts, qty |-> matchQty,
                                                  proceedsUsd |-> proceedsUsd]),
                      !.remainingQty = RemainingAfter(@, matchQty)]
       IN IF oracle["sell"] = "throw" \/ (hasFee /\ oracle["fee"] = "throw")
          THEN [st EXCEPT !.aborted = TRUE]
          ELSE SellLoop([st EXCEPT
                           !.lots = [@ EXCEPT ![k] = lot2],
                           !.open = IF lot2.remainingQty <= Epsilon THEN Tail(@) ELSE @,
                           !.matches = Append(@, [lot |-> k, before |-> st.lots,
                                                  need |-> remainingSellQty,
                                                  take |-> matchQty, time |-> activity.ts])],
                        activity, remainingSellQty - matchQty, oracle)

\* One iteration of the for loop over the activities of a token.
ProcessActivity(st, tokenMint, activity, oracle) ==
  IF st.aborted THEN st
  ELSE IF activity.side = "BUY"
  THEN IF oracle["buy"] = "throw" THEN [st EXCEPT !.aborted = TRUE]
       ELSE LET lot == NewLot(tokenMint, activity,
                              CloseOrZero(GetCandles(oracle, "buy", activity.ts)))
            IN [st EXCEPT !.lots = Append(@, lot), !.open = Append(@, Len(st.lots) + 1)]
  ELSE IF activity.side = "SELL"
  THEN SellLoop(st, activity, Abs(activity.qty), oracle)
  ELSE st

RECURSIVE ProcessActivities(_, _, _, _)
ProcessActivities(st, tokenMint, activities, oracle) ==
  IF activities = <<>> THEN st
  ELSE LET st2 == ProcessActivity(st, tokenMint, Head(activities), oracle)
       IN ProcessActivities([st2 EXCEPT !.trace = Append(@, st2.lots)],
                            tokenMint, Tail(activities), oracle)

RECURSIVE SumProceeds(_)
SumProceeds(matchedSells) ==
  IF matchedSells = <<>> THEN 0
  ELSE Head(matchedSells).proceedsUsd + SumProceeds(Tail(matchedSells))

\* lot.peakTimestamp, lot.peakPriceUsd and lot.peakPotentialUsd, from the
\* candle with the highest high
PeakSet(lot, peakCandle) ==
  [lot EXCEPT !.peakTimestamp = Some(peakCandle.t),
              !.peakPriceUsd = Some(peakCandle.h),
              !.peakPotentialUsd = QtyPriceUnit * lot.buyQty * peakCandle.h]

\* if (candles.length > 0) { ... }
WithPeak(lot, candles) == IF Len(candles) > 0 THEN PeakSet(lot, PeakCandle(candles)) ELSE lot

\* lot.realizedUsd = realizedProceeds.toNumber()
WithRealized(lot, realizedProceeds) == [lot EXCEPT !.realizedUsd = realizedProceeds]

\* The regret gap of a lot whose realizedUsd is set; getCurrentPriceUsd is
\* called for a lot still held, and its failure is caught.
WithRegret(lot, currentPrice, oracle) ==
  IF lot.remainingQty > 0
  THEN IF oracle["current"] = "throw"
       THEN [lot EXCEPT !.peakPotentialUsd = lot.realizedUsd, !.regretGapUsd = 0]
       ELSE IF currentPrice # 0
       THEN [lot EXCEPT !.regretGapUsd =
               Max2(0, lot.peakPotentialUsd
                       - (lot.realizedUsd + QtyPriceUnit * lot.remainingQty * currentPrice))]
       ELSE [lot EXCEPT !.regretGapUsd = Max2(0, lot.peakPotentialUsd - lot.realizedUsd)]
  ELSE [lot EXCEPT !.regretGapUsd = Max2(0, lot.peakPotentialUsd - lot.realizedUsd)]

\* PositionReconstructor.calculateLotMetrics
calculateLotMetrics(lot, oracle) ==
  IF oracle["peak"] = "throw"
  THEN [lot EXCEPT !.peakPotentialUsd = lot.realizedUsd, !.regretGapUsd = 0]
  ELSE WithRegret(WithRealized(WithPeak(lot, GetCandles(oracle, "peak", lot.buyTime)),
                               SumProceeds(lot.matchedSells)),
                  IF oracle["current"] = "ok" THEN 3 ELSE 0, oracle)

\* PositionReconstructor.processTokenActivities
processTokenActivities(tokenMint, activities, oracle) ==
  LET st == ProcessActivities([lots |-> <<>>, open |-> <<>>, aborted |-> FALSE,
                               matches |-> <<>>, trace |-> <<>>],
                              tokenMint, activities, oracle)
  IN IF st.aborted THEN st
     ELSE [st EXCEPT !.lots = [i \in 1..Len(st.lots) |-> calculateLotMetrics(st.lots[i], oracle)]]

\* The keys of the Map the activities are grouped in, in insertion order.
RECURSIVE MintsOf(_, _)
MintsOf(activities, seen) ==
  IF activities = <<>> THEN <<>>
  ELSE IF Head(activities).mint \in seen THEN MintsOf(Tail(activities), seen)
  ELSE <<Head(activities).mint>> \o MintsOf(Tail(activities), seen \cup {Head(activities).mint})

RECURSIVE ActivitiesOf(_, _)
ActivitiesOf(activities, mint) ==
  IF activities = <<>> THEN <<>>
  ELSE (IF Head(activities).mint = mint THEN <<Head(activities)>> ELSE <<>>)
       \o ActivitiesOf(Tail(activities), mint)

RECURSIVE SumOver(_, _)
SumOver(lots, field) ==
  IF lots = <<>> THEN 0 ELSE Head(lots)[field] + SumOver(Tail(lots), field)

RECURSIVE OpenValueAtCost(_, _)
OpenValueAtCost(lots, currentPrice) ==
  IF lots = <<>> THEN 0
  ELSE (IF Head(lots).remainingQty > 0
        THEN QtyPriceUnit * Head(lots).remainingQty * Head(lots).buyCostUsd ELSE 0)
       + OpenValueAtCost(Tail(lots), currentPrice)

\* lots.filter(lot => lot.remainingQty > 0), valued at the current price
RECURSIVE OpenValue(_, _)
OpenValue(lots, currentPrice) ==
  IF lots = <<>> THEN 0
  ELSE (IF Head(lots).remainingQty > 0
        THEN QtyPriceUnit * Head(lots).remainingQty * currentPrice ELSE 0)
       + OpenValue(Tail(lots), currentPrice)

\* currentPrices.get(tokenMint) || 0
CurrentPriceOf(currentPrices, tokenMint) ==
  IF tokenMint \in DOMAIN currentPrices THEN currentPrices[tokenMint] ELSE 0

\* The token-level metrics of the lots of one token.
TokenMetrics(tokenMint, st, currentPrice) ==
  [tokenMint |-> tokenMint, aborted |-> st.aborted, lots |-> st.lots,
   realizedUsd |-> SumOver(st.lots, "realizedUsd"),
   peakPotentialUsd |-> SumOver(st.lots, "peakPotentialUsd"),
   regretGapUsd |-> SumOver(st.lots, "regretGapUsd"),
   openValue |-> OpenValue(st.lots, currentPrice),
   matches |-> st.matches, trace |-> st.trace]

\* The body of the loop over the tokens.
TokenPosition(tokenMint, activities, currentPrices, oracle) ==
  TokenMetrics(tokenMint,
               processTokenActivities(tokenMint, ActivitiesOf(activities, tokenMint), oracle),
               CurrentPriceOf(currentPrices, tokenMint))

NoPositions == [aborted |-> FALSE, tokens |-> <<>>, summary |-> <<>>]

\* The totals over the tokens; a token whose processing threw ends the run.
Summary(tokens, firstAborted) ==
  IF firstAborted # {}
  THEN [aborted |-> TRUE, tokens |-> SubSeq(tokens, 1, SetMin(firstAborted)),
        summary |-> <<>>]
  ELSE [aborted |-> FALSE, tokens |-> tokens,
        summary |-> <<[totalRealizedUsd |-> SumOver(tokens, "realizedUsd"),
                       totalPeakPotentialUsd |-> SumOver(tokens, "peakPotentialUsd"),
                       totalRegretGapUsd |-> SumOver(tokens, "regretGapUsd"),
                       openPositionsUsd |-> SumOver(tokens, "openValue")]>>]

TokensAborted(tokens) == {i \in 1..Len(tokens) : tokens[i].aborted}

TokenPositions(mints, activities, currentPrices, oracle) ==
  [i \in 1..Len(mints) |-> TokenPosition(mints[i], activities, currentPrices, oracle)]

Summarize(tokens) == Summary(tokens, TokensAborted(tokens))

\* PositionReconstructor.reconstructPositions
reconstructPositions(activities, currentPrices, oracle) ==
  Summarize(TokenPositions(MintsOf(activities, {}), activities, currentPrices, oracle))

\* The current prices the analysis request has fetched: one for every token,
\* or none.
CurrentPrices(activities, priced) ==
  IF priced THEN [m \in Range(MintsOf(activities, {})) |-> 3]
  ELSE [m \in {} |-> 0]

\* The response of the analysis request.
AnalyzeResult(w, activities, oracle, priced, out) ==
  [NoResult EXCEPT !.op = "analyze", !.wallet = w, !.ok = ~out.aborted,
                   !.error = IF out.aborted THEN "Oracle" ELSE "",
                   !.activities = activities, !.oracle = oracle,
                   !.priced = priced, !.positions = out]

Analyze(w, activities, oracle, priced) ==
  AnalyzeResult(w, activities, oracle, priced,
                reconstructPositions(activities, CurrentPrices(activities, priced), oracle))

\* GET /api/analyze, from the normalization on: the provider's history of the
\* wallet, newest first, is normalized and handed to the reconstructor.
AnalyzeWallet(w, oracle, priced) ==
  /\ result.op = "none"
  /\ result' = Analyze(w, normalizeTransactions(History(w), w), oracle, priced)
  /\ prev' = NoPrev
  /\ UNCHANGED <<chain, rawTx, walletTx, syncState, lastCall, scanned, pc, intervalCount, locals,
                 analyzeCache>>

\* ------------------------------------------------------ the client's queue

\* The calls of one client instance that are running.
InFlight(q) == {c \in Callers : ClientOf(c) = q /\ pc[c] = "inflight"}

\* getParsedTransactions: the call is added to the instance's queue.
QueueAdd(c) ==
  /\ pc[c] = "idle"
  /\ pc' = [pc EXCEPT ![c] = "queued"]
  /\ UNCHANGED <<chain, rawTx, walletTx, syncState, result, prev, lastCall, scanned,
                 intervalCount, locals,
                 analyzeCache>>

\* The queue starts a waiting call when fewer than `concurrency` of its calls
\* are running and it has started fewer than `intervalCap` in this interval.
QueueStart(c) ==
  /\ pc[c] = "queued"
  /\ Cardinality(InFlight(ClientOf(c))) < Concurrency
  /\ intervalCount[ClientOf(c)] < IntervalCap
  /\ pc' = [pc EXCEPT ![c] = "inflight"]
  /\ intervalCount' = [intervalCount EXCEPT ![ClientOf(c)] = @ + 1]
  /\ UNCHANGED <<chain, rawTx, walletTx, syncState, result, prev, lastCall, scanned,
                 locals,
                 analyzeCache>>

\* The provider call (with its retries) settles and the caller goes on.
QueueSettle(c) ==
  /\ pc[c] = "inflight"
  /\ pc' = [pc EXCEPT ![c] = "idle"]
  /\ UNCHANGED <<chain, rawTx, walletTx, syncState, result, prev, lastCall, scanned,
                 intervalCount, locals,
                 analyzeCache>>

\* The instance's interval of one second ends.
QueueInterval(q) ==
  /\ intervalCount[q] > 0
  /\ intervalCount' = [intervalCount EXCEPT ![q] = 0]
  /\ UNCHANGED <<chain, rawTx, walletTx, syncState, result, prev, lastCall, scanned, pc, locals,
                 analyzeCache>>

\* --------------------------------------------- concurrent runs of a wallet

\* The wallet the indexer requests of the model are made for.
RunWallet == "W1"

BackfillCallers == {c \in Callers : c.component = "backfill"}

TailCallers == {c \in Callers : c.component = "tail"}

\* The local variables of backfillWallet when it enters its page loop, having
\* read (or created) the SyncState row `sync`.
RunLocals(sync) ==
  [wallet |-> RunWallet, storeFaults |-> {"none"}, scripts |-> {NoFault},
   storeError |-> FALSE, sync |-> sync, before |-> sync.lastBefore,
   cursorReset |-> FALSE, page |-> 1, maxPages |-> DefaultMaxPages,
   stats |-> ZeroStats, calls |-> 0, invalidBefores |-> 0, trace |-> <<>>,
   raw |-> {}, events |-> {}, done |-> FALSE, exhausted |-> FALSE, fatal |-> 0]

\* backfillWallet up to its first store answer: syncState.findUnique. With a
\* row the run goes on to its page loop with the row's cursor; without one it
\* goes on to create the row.
RunFindUnique(c) ==
  /\ locals[c].at = "idle"
  /\ locals' = [locals EXCEPT ![c] =
       IF syncState[RunWallet].exists
       THEN [at |-> "loop", r |-> RunLocals(syncState[RunWallet]), outcome |-> ""]
       ELSE [at |-> "create", r |-> <<>>, outcome |-> ""]]
  /\ UNCHANGED <<chain, rawTx, walletTx, syncState, result, prev, lastCall, scanned, pc,
                 intervalCount,
                 analyzeCache>>

\* syncState.create: the row's id and wallet are unique, so the create of a
\* run that finds the row made in the meantime throws and the run fails.
RunCreate(c) ==
  /\ locals[c].at = "create"
  /\ IF syncState[RunWallet].exists
     THEN /\ locals' = [locals EXCEPT ![c] = [IdleRun EXCEPT !.outcome = "UniqueViolation"]]
          /\ UNCHANGED syncState
     ELSE /\ syncState' = [syncState EXCEPT ![RunWallet] = NewSyncState]
          /\ locals' = [locals EXCEPT ![c] =
               [at |-> "loop", r |-> RunLocals(NewSyncState), outcome |-> ""]]
  /\ UNCHANGED <<chain, rawTx, walletTx, result, prev, lastCall, scanned, pc, intervalCount,
                 analyzeCache>>

\* One iteration of the page loop, on the store as it is now: the page is
\* fetched with the run's own `before`, persisted, and the run's cursor is
\* written to the row.
RunPage(c) ==
  /\ locals[c].at = "loop"
  /\ \E r \in {BackfillPage([locals[c].r EXCEPT !.raw = rawTx, !.events = walletTx,
                                                !.sync = syncState[RunWallet]],
                            NoFault, "none")} :
        /\ rawTx' = r.raw
        /\ walletTx' = r.events
        /\ syncState' = [syncState EXCEPT ![RunWallet] = r.sync]
        /\ locals' = [locals EXCEPT ![c] =
             [at |-> IF r.done THEN "mark" ELSE "loop", r |-> r, outcome |-> ""]]
  /\ UNCHANGED <<chain, result, prev, lastCall, scanned, pc, intervalCount,
                 analyzeCache>>

\* Mark full scan as complete; the run returns its stats.
RunMarkFullScan(c) ==
  /\ locals[c].at = "mark"
  /\ syncState' = [syncState EXCEPT ![RunWallet].fullScanAt = TRUE]
  /\ locals' = [locals EXCEPT ![c] = [IdleRun EXCEPT !.outcome = "stats"]]
  /\ UNCHANGED <<chain, rawTx, walletTx, result, prev, lastCall, scanned, pc, intervalCount,
                 analyzeCache>>

\* syncTail up to its first store answer: without a SyncState row it throws.
TailFindUnique(c) ==
  /\ locals[c].at = "idle"
  /\ locals' = [locals EXCEPT ![c] =
       IF HasSyncState(RunWallet)
       THEN [at |-> "tail", r |-> <<>>, outcome |-> ""]
       ELSE [IdleRun EXCEPT !.outcome = "RunBackfillFirst"]]
  /\ UNCHANGED <<chain, rawTx, walletTx, syncState, result, prev, lastCall, scanned, pc,
                 intervalCount,
                 analyzeCache>>

\* The rest of syncTail: the newest page is fetched, its new transactions are
\* persisted and verifiedSlot is written.
TailPage(c) ==
  /\ locals[c].at = "tail"
  /\ LET items == GetParsedTransactions(RunWallet, None, NoFault).items
         new == NewTransactions(items, RawSignatures)
     IN IF Len(new) = 0
        THEN UNCHANGED <<rawTx, walletTx, syncState>>
        ELSE /\ rawTx' = persistRawTransactions(rawTx, new)
             /\ walletTx' = persistWalletEvents(walletTx,
                                                normalizeTransactions(new, RunWallet),
                                                RunWallet)
             /\ syncState' = [syncState EXCEPT ![RunWallet].verifiedSlot =
                                Some(VerifiedSlotUpdate(Slots(new)))]
  /\ locals' = [locals EXCEPT ![c] = [IdleRun EXCEPT !.outcome = "stats"]]
  /\ UNCHANGED <<chain, result, prev, lastCall, scanned, pc, intervalCount,
                 analyzeCache>>

\* ------------------------------------------------------------ analyzeOnce

AnalyzeCallers == {c \in Callers : c.component = "analyze"}

\* (Date.now() - cached.timestamp) < CACHE_TTL_MS
Fresh(cached, now) == now - cached.timestamp < CACHE_TTL_MS

\* cached && fresh
CacheHit(m) == m.cache # None /\ Fresh(Val(m.cache), m.now)

InFlightHasNever(m) == FALSE

\* inFlight.has(wallet)
InFlightHas(m) == m.inFlight # None

\* What a call found when it was made: how it was served, by which run, when,
\* the last success before it, and whether that success's entry had been
\* evicted.
CallOf(m, kind, run) ==
  [kind |-> kind, run |-> run, time |-> m.now, since |-> m.lastSuccess,
   evicted |-> m.evicted]

\* cache.get(wallet) marks the wallet's entry as recently used.
Touched(m) == IF m.cache # None THEN [m EXCEPT !.others = 0] ELSE m

\* analyzeOnce(wallet, run) up to its return: the synchronous part of the call.
AnalyzeOnce(c) ==
  /\ locals[c].at = "idle"
  /\ IF CacheHit(analyzeCache)
     THEN /\ locals' = [locals EXCEPT ![c] =
               [at |-> "idle",
                r |-> CallOf(analyzeCache, "hit", Val(analyzeCache.cache).result),
                outcome |-> "resolved"]]
          /\ analyzeCache' = Touched(analyzeCache)
     ELSE IF InFlightHas(analyzeCache)
     THEN /\ locals' = [locals EXCEPT ![c] =
               [at |-> "awaiting",
                r |-> CallOf(analyzeCache, "joined", Val(analyzeCache.inFlight)),
                outcome |-> ""]]
          /\ analyzeCache' = Touched(analyzeCache)
     ELSE /\ Len(analyzeCache.runs) < MaxRuns
          /\ locals' = [locals EXCEPT ![c] =
               [at |-> "awaiting",
                r |-> CallOf(analyzeCache, "started", Len(analyzeCache.runs) + 1),
                outcome |-> ""]]
          /\ analyzeCache' = [Touched(analyzeCache) EXCEPT
               !.runs = Append(@, "pending"),
               !.inFlight = Some(Len(analyzeCache.runs) + 1)]
  /\ UNCHANGED <<chain, rawTx, walletTx, syncState, result, prev, lastCall, scanned, pc,
                 intervalCount>>

\* The callers that hold the promise of run id get what it settles with.
Settled(id, how) ==
  [c \in Callers |->
     IF locals[c].at = "awaiting" /\ locals[c].r.run = id
     THEN [locals[c] EXCEPT !.at = "idle", !.outcome = how]
     ELSE locals[c]]

\* run() resolves: .then caches the result, .finally deletes the in-flight entry.
RunResolves(id) ==
  /\ id \in 1..Len(analyzeCache.runs)
  /\ analyzeCache.runs[id] = "pending"
  /\ analyzeCache' = [analyzeCache EXCEPT
       !.runs[id] = "resolved",
       !.cache = Some([result |-> id, timestamp |-> analyzeCache.now]),
       !.others = 0,
       !.lastSuccess = Some([run |-> id, time |-> analyzeCache.now]),
       !.evicted = FALSE,
       !.inFlight = None]
  /\ locals' = Settled(id, "resolved")
  /\ UNCHANGED <<chain, rawTx, walletTx, syncState, result, prev, lastCall, scanned, pc,
                 intervalCount>>

\* run() rejects: nothing is cached, .finally deletes the in-flight entry.
RunRejects(id) ==
  /\ id \in 1..Len(analyzeCache.runs)
  /\ analyzeCache.runs[id] = "pending"
  /\ analyzeCache' = [analyzeCache EXCEPT !.runs[id] = "rejected", !.inFlight = None]
  /\ locals' = Settled(id, "rejected")
  /\ UNCHANGED <<chain, rawTx, walletTx, syncState, result, prev, lastCall, scanned, pc,
                 intervalCount>>

\* Time passes.
ClockTick ==
  /\ analyzeCache.now < MaxTicks * TickMs
  /\ analyzeCache' = [analyzeCache EXCEPT !.now = @ + TickMs]
  /\ UNCHANGED <<chain, rawTx, walletTx, syncState, result, prev, lastCall, scanned, pc,
                 intervalCount, locals>>

\* The analysis of another wallet succeeds and its result is cached.
CacheOther ==
  /\ analyzeCache.cache # None
  /\ analyzeCache.others < maxSize
  /\ analyzeCache' = [analyzeCache EXCEPT !.others = @ + 1]
  /\ UNCHANGED <<chain, rawTx, walletTx, syncState, result, prev, lastCall, scanned, pc,
                 intervalCount, locals>>

\* The LRU drops the wallet's entry: maxSize other entries are more recent.
CacheEvict ==
  /\ analyzeCache.cache # None
  /\ analyzeCache.others >= maxSize
  /\ analyzeCache' = [analyzeCache EXCEPT !.cache = None, !.others = 0, !.evicted = TRUE]
  /\ UNCHANGED <<chain, rawTx, walletTx, syncState, result, prev, lastCall, scanned, pc,
                 intervalCount, locals>>

\* -------------------------------------------------- the normalizer alone

\* normalize(tx, wallet) on a transaction with any payload.
Normalize(payload, wallet) ==
  /\ result.op = "none"
  /\ \E tx \in {[signature |-> 1, slot |-> 1, timestamp |-> 1, payload |-> payload]} :
       result' = [NoResult EXCEPT !.op = "normalize", !.wallet = wallet, !.tx = tx,
                                  !.events = normalize(tx, wallet)]
  /\ UNCHANGED <<chain, rawTx, walletTx, syncState, prev, lastCall, scanned, pc,
                 intervalCount, locals, analyzeCache>>

\* ----------------------------------------------------------- specification

Next ==
  \/ \E shape \in ShapeIds : AddTx(shape)
  \/ \E w \in Wallets, maxPages \in MaxPagesArgs : BackfillWallet(w, maxPages)
  \/ \E w \in Wallets, script \in OpScripts : SyncTail(w, script)
  \/ Return

Spec == Init /\ [][Next]_vars

\* The provider client on its own: any call, against any history.
ClientCall(w, before, script) ==
  /\ script \in ScriptsFor(before)
  /\ lastCall' = CallRecord(w, before, GetParsedTransactions(w, before, script))
  /\ UNCHANGED <<chain, rawTx, walletTx, syncState, result, prev, scanned, pc, intervalCount, locals,
                 analyzeCache>>

ClientAddTx(shape) ==
  /\ Len(chain) < MaxTx
  /\ chain' = Append(chain, [slot |-> Len(chain) + 1, shape |-> shape])
  /\ lastCall' = NoCall
  /\ UNCHANGED <<rawTx, walletTx, syncState, result, prev, scanned, pc, intervalCount, locals,
                 analyzeCache>>

NextClient ==
  \/ \E shape \in ShapeIds : ClientAddTx(shape)
  \/ \E w \in Wallets, script \in FaultScripts :
       \E before \in {None} \cup {Some(s) : s \in Range(History(w))} :
         ClientCall(w, before, script)

SpecClient == Init /\ [][NextClient]_vars

\* Backfill over a store that can fail in the middle of a page.
NextStore ==
  \/ \E shape \in ShapeIds : AddTx(shape)
  \/ \E w \in Wallets, maxPages \in MaxPagesArgs : BackfillWalletStoreFaults(w, maxPages)
  \/ Return

SpecStore == Init /\ [][NextStore]_vars

\* The slot ranges reconcileSlotRange is called with.
SlotArgs == 0..MaxTx

\* The transactions reconciliation is run over: a swap (two events) and a
\* fee-only transaction (no event).
ReconcileShapeIds == {2, 3}

\* Reconciliation of a store that backfill has filled, fully or partly.
NextReconcile ==
  \/ \E shape \in ReconcileShapeIds : AddTx(shape)
  \/ \E shape \in OtherShapeIds : IngestOther(shape)
  \/ \E w \in Wallets, maxPages \in MaxPagesArgs : BackfillWalletNoFaults(w, maxPages)
  \/ \E w \in Wallets, fromSlot \in SlotArgs, toSlot \in SlotArgs :
       ReconcileSlotRange(w, fromSlot, toSlot)
  \/ Return

SpecReconcile == Init /\ [][NextReconcile]_vars

\* Reconciliation of the recent slots, over histories whose transactions lie
\* one slot or a whole chunk apart.
SlotGaps == {1, ChunkSize}

SlotCountArgs == {0, 1, ChunkSize, ChunkSize + 1, DefaultSlotCount}

NextRecent ==
  \/ \E shape \in ReconcileShapeIds, gap \in SlotGaps : AddTxAt(shape, gap)
  \/ \E w \in Wallets, maxPages \in MaxPagesArgs : BackfillWalletNoFaults(w, maxPages)
  \/ \E w \in Wallets : SyncTail(w, NoFault)
  \/ \E w \in Wallets, slotCount \in SlotCountArgs : ReconcileRecentSlots(w, slotCount)
  \/ Return

SpecRecent == Init /\ [][NextRecent]_vars

\* The position analysis over trading histories.
NextAnalyze ==
  \/ \E shape \in TradeShapeIds : AddTx(shape)
  \/ \E w \in Wallets, oracle \in Oracles, priced \in BOOLEAN : AnalyzeWallet(w, oracle, priced)
  \/ Return

SpecAnalyze == Init /\ [][NextAnalyze]_vars

\* ------------------------------------------------------------------ claims

\* C1 as stated: a backfill run that follows another backfill run of the same
\* wallet, with the upstream history unchanged in between, leaves the
\* RawTransaction rows and the WalletEvent rows exactly as the first run left them.
C1_BackfillTwiceIdentical ==
  (result.op = "backfill" /\ result.backToBack)
    => (result.rawSame /\ result.eventsSame)

\* C1: when the first of two back-to-back backfill runs ended on an empty page
\* (the end of the history) and the provider, its state unchanged, accepts in the
\* second run the cursor it accepted in the first, the second run leaves the
\* RawTransaction rows and the WalletEvent rows exactly as the first run left them.
C1_BackfillTwiceAfterExhausted ==
  (/\ result.op = "backfill" /\ result.backToBack /\ result.prevExhausted
   /\ result.invalidBefores = 0)
    => (result.rawSame /\ result.eventsSame)

C1_Witness ==
  /\ result.op = "backfill" /\ result.backToBack /\ result.prevExhausted
  /\ result.invalidBefores = 0
  /\ Len(History(result.wallet)) > PageSize
  /\ RawSignatures = Range(History(result.wallet))
  /\ walletTx # {}
  /\ result.calls > 0

\* C2: for every ingested transaction and wallet, the WalletEvent rows in the
\* store are exactly the rows that ingesting the transaction alone writes: the
\* (wallet, signature, index) keys do not depend on the batch it came in, and
\* there is one row per event.
C2_EventRowsIndependentOfBatching ==
  \A w \in Wallets : \A sig \in RawSignatures \cap Range(History(w)) :
    {r \in walletTx : r.wallet = w /\ r.signature = sig}
      = persistWalletEvents({}, normalizeTransactions(<<sig>>, w), w)

\* The length of the longest prefix of items with no signature in existing.
FreshPrefixLen(items, existing) ==
  LET stops == {i \in 1..Len(items) : items[i] \in existing}
  IN IF stops = {} THEN Len(items) ELSE SetMin(stops) - 1

\* C3: a syncTail run that gets its page persists exactly the items before the
\* first one already in RawTransaction (all of them when none is), writes
\* nothing and returns zero stats when that prefix is empty, and makes
\* prefix length + 1 lookups, or page length lookups when no item exists.
C3_TailPrefix ==
  [][\A w \in Wallets : (result'.op = "syncTail" /\ result'.wallet = w /\ result'.ok) =>
       LET items == ProviderPage(w, None)
           k == FreshPrefixLen(items, RawSignatures)
           new == SubSeq(items, 1, k)
       IN /\ rawTx' = rawTx \cup {RawTxRow(Tx(new[i])) : i \in 1..k}
          /\ walletTx' = persistWalletEvents(walletTx, normalizeTransactions(new, w), w)
          /\ result'.stats.rawTxCount = k
          /\ k = 0 => (UNCHANGED <<rawTx, walletTx, syncState>> /\ result'.stats = ZeroStats)
          /\ result'.lookups = IF k < Len(items) THEN k + 1 ELSE Len(items)]_vars

C3_Witness ==
  /\ result.op = "syncTail" /\ result.ok
  /\ result.stats.rawTxCount >= 1
  /\ result.lookups = result.stats.rawTxCount + 1
  /\ ~result.rawSame

\* C4: a syncTail run that ingests new items leaves verifiedSlot at the larger
\* of its previous value and the highest slot of the newly ingested items, and
\* no syncTail run lowers verifiedSlot.
C4_VerifiedSlotMax ==
  [][\A w \in Wallets : (result'.op = "syncTail" /\ result'.wallet = w) =>
       \A old \in {syncState[w].verifiedSlot}, newSlots \in {{r.slot : r \in rawTx' \ rawTx}} :
          /\ newSlots # {} =>
               syncState'[w].verifiedSlot =
                 Some(IF old = None THEN SetMax(newSlots)
                      ELSE SetMax(newSlots \cup {Val(old)}))
          /\ old # None =>
               /\ syncState'[w].verifiedSlot # None
               /\ Val(syncState'[w].verifiedSlot) >= Val(old)]_vars

C4_Witness ==
  /\ result.op = "syncTail" /\ result.ok
  /\ result.stats.rawTxCount >= 2
  /\ result.verifiedBefore # None
  /\ syncState[result.wallet].verifiedSlot # result.verifiedBefore

\* C5: once a backfill run of a wallet has reached the end of the history, every
\* transaction the provider lists for the wallet with a slot up to verifiedSlot
\* is in RawTransaction.
C5_VerifiedSlotWatermark ==
  \A w \in scanned :
    syncState[w].verifiedSlot # None =>
      \A sig \in Range(History(w)) :
        Tx(sig).slot <= Val(syncState[w].verifiedSlot) => sig \in RawSignatures

\* C6: syncTail on a wallet without a SyncState row fails with the error that
\* tells to run backfill first, having called the provider zero times and
\* written nothing to the store.
C6_TailNeedsSyncState ==
  [][\A w \in Wallets :
       (result'.op = "syncTail" /\ result'.wallet = w /\ ~syncState[w].exists) =>
       /\ ~result'.ok
       /\ result'.error = "RunBackfillFirst"
       /\ result'.calls = 0
       /\ UNCHANGED <<rawTx, walletTx, syncState>>]_vars

C6_Witness ==
  /\ result.op = "syncTail" /\ ~result.ok
  /\ result.error = "RunBackfillFirst"
  /\ ~syncState[result.wallet].exists
  /\ History(result.wallet) # <<>>

\* C7: a backfill run that is answered 400 'invalid before' calls the provider
\* again, and when no other error stops it the run still fetches as many pages
\* as maxPages allows; a run answered so twice ends in a failure.
C7_CursorSelfHealing ==
  result.op = "backfill" =>
    /\ result.invalidBefores >= 1 => result.calls >= 2
    /\ (result.invalidBefores = 1 /\ result.fatal = 0 /\ ~result.exhausted)
         => result.stats.pagesFetched = result.maxPages
    /\ result.invalidBefores >= 2 => ~result.ok

\* C8: a backfill run stopped by a provider 4xx answer other than the healed
\* invalid cursor ends in a failure and does not mark the full scan as done.
C8_Permanent4xxFails ==
  (result.op = "backfill" /\ result.fatal >= 400 /\ result.fatal < 500)
    => (~result.ok /\ ~result.fullScanMarked)

\* HTTP 429 or 5xx
Transient(status) == status = 429 \/ (status >= 500 /\ status < 600)

\* C9: a provider call answered 429 or 5xx is repeated: it resolves with the
\* first successful attempt when that comes within the retries, and rejects only
\* after all retries are used.
C9_TransientRetried ==
  (Len(lastCall.statuses) > 0 /\ Transient(lastCall.statuses[1])) =>
    /\ lastCall.pending <= Retries =>
         (lastCall.ok /\ Len(lastCall.statuses) = lastCall.pending + 1)
    /\ ~lastCall.ok => Len(lastCall.statuses) = Retries + 1

\* C10: a provider call answered a 4xx other than 429 makes exactly one HTTP
\* request and rejects with that answer's error.
C10_PermanentNotRetried ==
  (/\ Len(lastCall.statuses) > 0
   /\ lastCall.statuses[1] >= 400 /\ lastCall.statuses[1] < 500
   /\ lastCall.statuses[1] # 429) =>
    /\ Len(lastCall.statuses) = 1
    /\ ~lastCall.ok
    /\ lastCall.status = lastCall.statuses[1]

C10_Witness ==
  /\ lastCall.statuses = <<404>>
  /\ lastCall.pending = 1
  /\ ~lastCall.ok

\* C11 as stated: a provider call that keeps receiving retryable failures makes
\* at most 5 HTTP attempts.
C11_AtMostFiveAttempts ==
  (Len(lastCall.statuses) > 0 /\ Transient(lastCall.statuses[1]))
    => Len(lastCall.statuses) <= 5

\* C11: a provider call makes at most 1 + retries = 6 HTTP attempts, and one that
\* is answered 5xx on every one of them rejects after exactly 6.
C11_AtMostRetriesPlusOne ==
  Len(lastCall.statuses) > 0 =>
    /\ Len(lastCall.statuses) <= Retries + 1
    /\ (lastCall.statuses[1] >= 500 /\ lastCall.pending > Retries)
         => (~lastCall.ok /\ Len(lastCall.statuses) = Retries + 1)

C11_Witness ==
  /\ Len(lastCall.statuses) = Retries + 1
  /\ lastCall.statuses[1] >= 500
  /\ lastCall.pending > Retries
  /\ ~lastCall.ok

\* C12: a backfill run of a wallet without a SyncState row whose first page is
\* empty returns pagesFetched = 0, rawTxCount = 0 and walletTxCount = 0 after
\* exactly one provider call, and leaves a SyncState row with fullScanAt set and
\* lastBefore null.
C12_EmptyHistory ==
  [][\A w \in Wallets :
       (/\ result'.op = "backfill" /\ result'.wallet = w
        /\ ~syncState[w].exists /\ History(w) = <<>> /\ result'.fatal = 0) =>
       /\ result'.stats.pagesFetched = 0
       /\ result'.stats.rawTxCount = 0
       /\ result'.stats.walletTxCount = 0
       /\ result'.calls = 1
       /\ syncState'[w].exists /\ syncState'[w].fullScanAt
       /\ syncState'[w].lastBefore = None]_vars

\* The cursor the latest page fetched before call i of t handed on, or `start`
\* when no page was fetched before it.
PrecedingCursor(t, i, start) ==
  LET oks == {j \in 1..(i - 1) : t[j].ok}
  IN IF oks = {} THEN start ELSE t[SetMax(oks)].nextBefore

\* What C13 says of a run apart from the cursor of its later calls: the first
\* call uses SyncState.lastBefore, a page's nextBefore is the signature of its
\* last item, no call follows an empty page, and at most maxPages pages are fetched.
CursorChainFrame(t, start, maxPages) ==
  /\ Len(t) >= 1
  /\ t[1].before = start
  /\ \A i \in 1..Len(t) :
       t[i].ok => t[i].nextBefore =
                    (IF t[i].items = <<>> THEN None
                     ELSE Some(t[i].items[Len(t[i].items)]))
  /\ \A i \in 1..(Len(t) - 1) : t[i].ok => t[i].items # <<>>
  /\ Cardinality({i \in 1..Len(t) : t[i].ok}) <= maxPages

\* C13 as stated: in a backfill run the first provider call uses
\* SyncState.lastBefore, every later call uses the nextBefore of the preceding
\* page (the signature of its last item), no call follows an empty page, and at
\* most maxPages pages are fetched.
C13_CursorChainAlways ==
  [][\A w \in Wallets : (result'.op = "backfill" /\ result'.wallet = w) =>
       \A t \in {result'.trace}, start \in {syncState[w].lastBefore} :
         /\ CursorChainFrame(t, start, result'.maxPages)
         /\ \A i \in 2..Len(t) : t[i].before = PrecedingCursor(t, i, start)]_vars

\* C13: the same, except that the call that follows a call rejected with
\* 'invalid before' uses no cursor.
C13_CursorChain ==
  [][\A w \in Wallets : (result'.op = "backfill" /\ result'.wallet = w) =>
       \A t \in {result'.trace}, start \in {syncState[w].lastBefore} :
         /\ CursorChainFrame(t, start, result'.maxPages)
         /\ \A i \in 2..Len(t) :
              IF t[i - 1].ok THEN t[i].before = t[i - 1].nextBefore
              ELSE t[i - 1].invalidBefore /\ t[i].before = None]_vars

C13_Witness ==
  /\ result.op = "backfill"
  /\ Len(result.trace) >= 3
  /\ \A i \in 1..Len(result.trace) : result.trace[i].ok
  /\ Len(result.trace[1].items) = PageSize
  /\ result.trace[2].before = Some(result.trace[1].items[PageSize])
  /\ result.exhausted

\* C14: after a backfill run that ended because the history was exhausted (an
\* empty page or a page without nextBefore), SyncState.lastBefore is null.
C14_CursorClearedOnCompletion ==
  (result.op = "backfill" /\ result.exhausted)
    => syncState[result.wallet].lastBefore = None

\* C15: after a backfill run SyncState.lastBefore is null or a signature the
\* provider accepted in the run's last call that used it; a cursor the provider
\* rejected as invalid does not stay in SyncState.
C15_CursorSafety ==
  result.op = "backfill" =>
    \A t \in {result.trace}, c \in {syncState[result.wallet].lastBefore} :
      \A uses \in {{i \in 1..Len(t) : t[i].before = c}} :
        (c # None /\ uses # {}) => ~t[SetMax(uses)].invalidBefore

\* C16: when a store failure interrupts a page of a backfill run, SyncState.lastBefore
\* has not moved past the page before it, and it is a cursor for which the
\* provider returns the interrupted page again.
C16_CrashSafeResume ==
  [][\A w \in Wallets :
       (result'.op = "backfill" /\ result'.wallet = w /\ result'.storeError) =>
       \A t \in {result'.trace}, c \in {syncState'[w].lastBefore} :
         /\ c = PrecedingCursor(t, Len(t), syncState[w].lastBefore)
         /\ ProviderPage(w, c) = t[Len(t)].items]_vars


\* The provider's signatures of wallet w with a slot in [fromSlot, toSlot].
ProviderInRange(w, fromSlot, toSlot) ==
  {sig \in Range(History(w)) : InRange(Tx(sig).slot, fromSlot, toSlot)}

\* C17: a reconcileSlotRange that returns reports as missingSignatures exactly
\* the provider's signatures of the slot range that the store lacked before the
\* repair, writes raw rows and event rows for exactly those transactions, and
\* leaves every provider signature of the range in the raw store.
C17_MissingRepaired ==
  [][\A rec \in {result'.rec}, raw2 \in {rawTx'}, ev2 \in {walletTx'} :
       (result.op = "none" /\ result'.op = "reconcile" /\ result'.ok) =>
         LET P == ProviderInRange(rec.wallet, rec.fromSlot, rec.toSlot)
             absent == P \ RawSignatures
         IN /\ rec.missingSignatures = SortedSeq(absent)
            /\ rawTx \subseteq raw2
            /\ raw2 \ rawTx = {RawTxRow(Tx(sig)) : sig \in absent}
            /\ walletTx \subseteq ev2
            /\ {r.signature : r \in ev2 \ walletTx} \subseteq absent
            /\ \A sig \in absent :
                 Cardinality({r \in ev2 : r.signature = sig})
                   = Len(normalizeTransactions(<<sig>>, rec.wallet))
            /\ P \subseteq {r.signature : r \in raw2}]_vars

\* A reconciliation has returned after repairing two missing transactions,
\* with raw rows and event rows written.
C17_Witness ==
  /\ result.op = "reconcile" /\ result.ok
  /\ Len(result.rec.missingSignatures) >= 2
  /\ ~result.rawSame /\ ~result.eventsSame
  /\ result.rec.countRaw > 0


\* The signatures of the raw rows with a slot in [fromSlot, toSlot].
StoredInRange(rows, fromSlot, toSlot) ==
  {r.signature : r \in {x \in rows : InRange(x.slot, fromSlot, toSlot)}}

\* C18: a reconcileSlotRange that returns has ok = TRUE exactly when, in the
\* store it leaves, the stored signatures of the slot range hash to the hash of
\* the provider's signatures of the range and none of the provider's is missing.
C18_OkIffHashesAgree ==
  [][\A rec \in {result'.rec}, raw2 \in {rawTx'} :
       (result.op = "none" /\ result'.op = "reconcile" /\ result'.ok) =>
         LET P == ProviderInRange(rec.wallet, rec.fromSlot, rec.toSlot)
             S == StoredInRange(raw2, rec.fromSlot, rec.toSlot)
         IN rec.ok <=> (SortedSeq(P) = SortedSeq(S) /\ P \subseteq S)]_vars

\* A reconciliation has repaired a missing transaction and returned ok = FALSE:
\* the range holds a stored signature the provider does not list for the wallet.
C18_Witness ==
  /\ result.op = "reconcile" /\ result.ok
  /\ Len(result.rec.missingSignatures) >= 1
  /\ ~result.rawSame
  /\ ~result.rec.ok


\* C19: when a reconcileSlotRange repairs missing transactions and returns,
\* the audit row it appends and the result it returns carry the counts of the
\* repaired store: countRaw is the number of stored signatures of the slot
\* range after the repair, with ok = TRUE and the hash of the repaired store.
C19_AuditPostRepairCount ==
  [][\A rec \in {result'.rec}, audits \in {result'.audits}, raw2 \in {rawTx'} :
       (/\ result.op = "none" /\ result'.op = "reconcile" /\ result'.ok
        /\ Len(rec.missingSignatures) > 0) =>
         LET S == StoredInRange(raw2, rec.fromSlot, rec.toSlot)
         IN /\ Len(audits) = 1
            /\ audits[1] = AuditRow(rec)
            /\ rec.countRaw = Cardinality(S)
            /\ rec.hash = computeSignatureHash(SortedSeq(S))
            /\ rec.ok]_vars

\* The parts of C19 apart from countRaw and ok: one audit row, equal to the
\* returned result, with the hash of the repaired store.
C19_AuditHashOnly ==
  [][\A rec \in {result'.rec}, audits \in {result'.audits}, raw2 \in {rawTx'} :
       (/\ result.op = "none" /\ result'.op = "reconcile" /\ result'.ok
        /\ Len(rec.missingSignatures) > 0) =>
         LET S == StoredInRange(raw2, rec.fromSlot, rec.toSlot)
         IN /\ Len(audits) = 1
            /\ audits[1] = AuditRow(rec)
            /\ rec.hash = computeSignatureHash(SortedSeq(S))
            /\ rec.countRaw = Cardinality(S) - Len(rec.missingSignatures)]_vars


\* C20: in the writes of one reconcileSlotRange run, taken in the order they
\* are made, the audit row comes after every raw upsert and every event upsert
\* of the repair, whether the run returns or throws.
C20_AuditAfterRepairWrites ==
  result.op = "reconcile" =>
    \A i \in 1..Len(result.log), j \in 1..Len(result.log) :
       (result.log[i] = "audit" /\ result.log[j] \in {"raw", "event"}) => j < i

\* A reconciliation has made raw upserts and event upserts and then written
\* its audit row.
C20_Witness ==
  /\ result.op = "reconcile"
  /\ Len(result.log) >= 4
  /\ \E i \in 1..Len(result.log) : result.log[i] = "raw"
  /\ \E i \in 1..Len(result.log) : result.log[i] = "event"
  /\ result.log[Len(result.log)] = "audit"
  /\ Len(result.audits) = 1


\* C21: a reconcileSlotRange that a provider failure or a store failure makes
\* throw has appended an audit row, and every audit row it appended has
\* ok = FALSE.
C21_FailedRunAudited ==
  (result.op = "reconcile" /\ ~result.ok) =>
    /\ Len(result.audits) >= 1
    /\ \A i \in 1..Len(result.audits) : ~result.audits[i].ok

\* The part of C21 that holds: a run that throws before it reaches the audit
\* at the end of its try block appends one audit row with ok = FALSE, unless
\* the creation of the audit row throws as well.
C21_FailedBeforeAudit ==
  (result.op = "reconcile" /\ ~result.ok /\ result.error # "Audit") =>
    /\ Len(result.audits) = 1
    /\ ~result.audits[1].ok


\* C22: reconcileRecentSlots fails when the wallet has no verified slot;
\* otherwise the slot ranges it hands to reconcileSlotRange are consecutive
\* chunks of at most 1000 slots, ascending and pairwise disjoint, starting at
\* max(0, verifiedSlot - windowSize); a run that returns has covered the window
\* exactly up to verifiedSlot and returns one result per chunk.
C22_RecentChunks ==
  result.op = "recent" =>
    LET chunks == result.chunks
        n == Len(chunks)
        latestSlot == Val(result.verifiedBefore)
        fromSlot == IF latestSlot - result.maxPages > 0 THEN latestSlot - result.maxPages ELSE 0
    IN /\ (result.error = "NoVerifiedSlot") <=> (result.verifiedBefore = None)
       /\ result.verifiedBefore = None => (~result.ok /\ n = 0 /\ result.audits = <<>>)
       /\ result.verifiedBefore # None =>
            /\ n >= 1
            /\ chunks[1][1] = fromSlot
            /\ \A i \in 1..n :
                 /\ chunks[i][1] <= chunks[i][2]
                 /\ chunks[i][2] - chunks[i][1] + 1 <= 1000
                 /\ chunks[i][2] <= latestSlot
            /\ \A i \in 1..(n - 1) : chunks[i + 1][1] = chunks[i][2] + 1
            /\ result.ok =>
                 /\ chunks[n][2] = latestSlot
                 /\ Len(result.results) = n
                 /\ \A i \in 1..n :
                      /\ result.results[i].fromSlot = chunks[i][1]
                      /\ result.results[i].toSlot = chunks[i][2]

\* A recent-slots run has returned after three chunks or more, the last one
\* shorter than a full chunk.
C22_Witness ==
  /\ result.op = "recent" /\ result.ok
  /\ Len(result.chunks) >= 3
  /\ Len(result.results) = Len(result.chunks)
  /\ LET c == result.chunks[Len(result.chunks)] IN c[2] - c[1] + 1 < ChunkSize


\* The lots of every token after each event of an analysis, and at its end.
LotSnapshots ==
  UNION {Range(result.positions.tokens[i].trace) \cup {result.positions.tokens[i].lots} :
           i \in 1..Len(result.positions.tokens)}

RECURSIVE SumQty(_)
SumQty(matchedSells) ==
  IF matchedSells = <<>> THEN 0 ELSE Head(matchedSells).qty + SumQty(Tail(matchedSells))

\* C23: after every event the reconstructor has processed, and at the end of
\* the run, every lot has remainingQty plus the quantities of its matched sells
\* equal to its buyQty, within 0.000001.
C23_LotConservation ==
  result.op = "analyze" =>
    \A lots \in LotSnapshots : \A k \in 1..Len(lots) :
       Abs(lots[k].remainingQty + SumQty(lots[k].matchedSells) - lots[k].buyQty) <= Epsilon

\* An analysis has ended with a lot that two sells were matched against, and
\* that was still open, with more than 0.000001 left, after the first of them.
C23_Witness ==
  /\ result.op = "analyze" /\ result.ok
  /\ \E lots \in LotSnapshots : \E k \in 1..Len(lots) :
       /\ Len(lots[k].matchedSells) = 1
       /\ lots[k].remainingQty > Epsilon
  /\ \E lots \in LotSnapshots : \E k \in 1..Len(lots) :
       /\ Len(lots[k].matchedSells) >= 2
       /\ lots[k].remainingQty = 0


\* The matches of every token of an analysis: the lot matched, the lots as
\* they were before the match, the sell quantity still needed and taken.
AllMatches ==
  UNION {Range(result.positions.tokens[i].matches) : i \in 1..Len(result.positions.tokens)}

\* C24: a lot receives a matched sell only when every lot of the token with an
\* earlier buyTime is closed (remainingQty <= 0.000001), and the match takes
\* min(remaining sell quantity, lot.remainingQty).
C24_FifoByBuyTime ==
  result.op = "analyze" =>
    \A m \in AllMatches :
       /\ \A j \in 1..Len(m.before) :
            m.before[j].buyTime < m.before[m.lot].buyTime
              => m.before[j].remainingQty <= Epsilon
       /\ m.take = Min2(m.need, m.before[m.lot].remainingQty)

\* The part of C24 that holds: a lot receives a matched sell only when every
\* lot the reconstructor created before it is closed, and the match takes
\* min(remaining sell quantity, lot.remainingQty).
C24_FifoInArrivalOrder ==
  result.op = "analyze" =>
    \A m \in AllMatches :
       /\ \A j \in 1..(m.lot - 1) : m.before[j].remainingQty <= Epsilon
       /\ m.take = Min2(m.need, m.before[m.lot].remainingQty)


\* C25: the events reach the lot matching in ascending blockTime order, so
\* that for a BUY and a later SELL of one token in the wallet's history the
\* BUY's lot exists when the SELL is matched.
C25_AscendingBlockTime ==
  (result.op = "analyze" /\ result.ok) =>
    /\ \A i \in 1..Len(result.activities), j \in 1..Len(result.activities) :
         i < j => result.activities[i].ts <= result.activities[j].ts
    /\ \A n \in 1..Len(result.positions.tokens) :
         LET token == result.positions.tokens[n]
             acts == ActivitiesOf(result.activities, token.tokenMint)
         IN \A i \in 1..Len(acts), j \in 1..Len(acts) :
              (acts[i].side = "BUY" /\ acts[j].side = "SELL" /\ acts[i].ts < acts[j].ts)
                => \E k \in 1..Len(token.trace[j]) :
                     token.trace[j][k].lotId = <<acts[i].sig, acts[i].ts>>


\* The quantity the matches of the sell made at time ts took from the lots.
RECURSIVE TakenAt(_, _)
TakenAt(matches, ts) ==
  IF matches = <<>> THEN 0
  ELSE (IF Head(matches).time = ts THEN Head(matches).take ELSE 0) + TakenAt(Tail(matches), ts)

\* The quantity left in the open lots (those with more than 0.000001 left).
RECURSIVE OpenRemaining(_)
OpenRemaining(lots) ==
  IF lots = <<>> THEN 0
  ELSE (IF Head(lots).remainingQty > Epsilon THEN Head(lots).remainingQty ELSE 0)
       + OpenRemaining(Tail(lots))

\* The lots of a token before its j-th activity is processed.
LotsBefore(token, j) == IF j = 1 THEN <<>> ELSE token.trace[j - 1]

CountSide(acts, side) == Cardinality({i \in 1..Len(acts) : acts[i].side = side})

NoOracleThrowInMatching ==
  \A p \in {"buy", "sell", "fee"} : result.oracle[p] # "throw"

\* C26: with the oracle answering, a SELL that exceeds what the token's open
\* lots hold (a SELL with no earlier lot included) does not fail the run; it
\* takes exactly what the open lots hold, no lot goes below zero, and no lot
\* is created for it.
C26_UnmatchedSellDropped ==
  (result.op = "analyze" /\ NoOracleThrowInMatching) =>
    /\ result.ok
    /\ \A lots \in LotSnapshots : \A k \in 1..Len(lots) : lots[k].remainingQty >= 0
    /\ \A n \in 1..Len(result.positions.tokens) :
         LET token == result.positions.tokens[n]
             acts == ActivitiesOf(result.activities, token.tokenMint)
         IN /\ Len(token.lots) = CountSide(acts, "BUY")
            /\ Len(token.trace) = Len(acts)
            /\ \A j \in 1..Len(acts) :
                 acts[j].side = "SELL" =>
                   /\ Len(token.trace[j]) = Len(LotsBefore(token, j))
                   /\ TakenAt(token.matches, acts[j].ts)
                        = Min2(Abs(acts[j].qty), OpenRemaining(LotsBefore(token, j)))

\* An analysis has ended in which one SELL found no lot at all and another
\* found less in the open lots than it sold.
C26_Witness ==
  /\ result.op = "analyze" /\ NoOracleThrowInMatching /\ result.ok
  /\ \E n \in 1..Len(result.positions.tokens) :
       LET token == result.positions.tokens[n]
           acts == ActivitiesOf(result.activities, token.tokenMint)
       IN /\ \E j \in 1..Len(acts) :
               /\ acts[j].side = "SELL"
               /\ OpenRemaining(LotsBefore(token, j)) > 0
               /\ OpenRemaining(LotsBefore(token, j)) < Abs(acts[j].qty)
          /\ \E j \in 1..Len(acts) :
               /\ acts[j].side = "SELL"
               /\ OpenRemaining(LotsBefore(token, j)) = 0


\* The quantities bought into the lots, valued at one price.
RECURSIVE BoughtValue(_, _)
BoughtValue(lots, price) ==
  IF lots = <<>> THEN 0
  ELSE QtyPriceUnit * Head(lots).buyQty * price + BoughtValue(Tail(lots), price)

OnlyBuys(tokenMint) ==
  \A i \in 1..Len(result.activities) :
    result.activities[i].mint = tokenMint => result.activities[i].side = "BUY"

\* The current price the request handed over for the token, 0 when it has none.
PriceHandedOver(tokenMint) == IF result.priced THEN 3 ELSE 0

\* C27: in a finished reconstruction, a token with only BUY events has
\* realizedUsd = 0 and an open value of the sum over its lots of buyQty times
\* the token's current price; when it is the only token, that is the
\* summary's openPositionsUsd.
C27_OnlyBuys ==
  (result.op = "analyze" /\ result.ok) =>
    \A n \in 1..Len(result.positions.tokens) :
      LET token == result.positions.tokens[n]
      IN OnlyBuys(token.tokenMint) =>
           /\ token.realizedUsd = 0
           /\ token.openValue = BoughtValue(token.lots, PriceHandedOver(token.tokenMint))
           /\ Len(result.positions.tokens) = 1 =>
                result.positions.summary[1].openPositionsUsd = token.openValue

\* A reconstruction has finished for a wallet that bought a token twice and
\* never sold it, with a current price for the token.
C27_Witness ==
  /\ result.op = "analyze" /\ result.ok /\ result.priced
  /\ \E n \in 1..Len(result.positions.tokens) :
       LET token == result.positions.tokens[n]
       IN /\ OnlyBuys(token.tokenMint)
          /\ Len(token.lots) = 2
          /\ token.openValue > 0
          /\ Len(result.positions.tokens) = 1


LotsReported ==
  UNION {Range(result.positions.tokens[n].lots) : n \in 1..Len(result.positions.tokens)}

\* C28: when the oracle has no candles for the lots' windows, every lot of a
\* finished reconstruction has null peak fields and peakPotentialUsd equal to
\* the sum of its matched sells' proceeds.
C28_EmptyCandlesFallBack ==
  (result.op = "analyze" /\ result.ok /\ result.oracle["peak"] = "empty") =>
    \A lot \in LotsReported :
      /\ lot.peakTimestamp = None
      /\ lot.peakPriceUsd = None
      /\ lot.realizedUsd = SumProceeds(lot.matchedSells)
      /\ lot.peakPotentialUsd = lot.realizedUsd

\* What the code does with no candles: the peak fields stay null,
\* realizedUsd is the sum of the proceeds, and peakPotentialUsd stays at the
\* 0 the lot was created with.
C28_EmptyCandlesLeaveZero ==
  (result.op = "analyze" /\ result.ok /\ result.oracle["peak"] = "empty") =>
    \A lot \in LotsReported :
      /\ lot.peakTimestamp = None
      /\ lot.peakPriceUsd = None
      /\ lot.realizedUsd = SumProceeds(lot.matchedSells)
      /\ lot.peakPotentialUsd = 0

\* A lot with proceeds has been reported by a run that had no peak candles.
C28_SoldLotWithoutCandles ==
  /\ result.op = "analyze" /\ result.ok /\ result.oracle["peak"] = "empty"
  /\ \E lot \in LotsReported : lot.realizedUsd > 0


OracleThrowsAt(p) == result.op = "analyze" /\ result.oracle[p] = "throw"

\* The lots a failed lookup at point p touches: every lot for the peak
\* candles, the lots still held for the current price.
Affected(lot, p) ==
  \/ p \in {"buy", "sell", "fee", "peak"}
  \/ p = "current" /\ lot.remainingQty > 0

\* C29: a failed oracle lookup at any of the five points never aborts the
\* reconstruction, and every lot it touches ends with peakPotentialUsd equal
\* to the sum of its proceeds and regretGapUsd = 0.
C29_OracleFailureNeverAborts ==
  \A p \in OraclePoints :
    OracleThrowsAt(p) =>
      /\ result.ok
      /\ \A lot \in LotsReported :
           Affected(lot, p) =>
             /\ lot.peakPotentialUsd = SumProceeds(lot.matchedSells)
             /\ lot.regretGapUsd = 0

\* What holds of a failed current-price lookup: the run finishes and every
\* lot still held ends with peakPotentialUsd = realizedUsd = the sum of its
\* proceeds and regretGapUsd = 0.
C29_CurrentPriceFailureFallsBack ==
  OracleThrowsAt("current") =>
    /\ result.ok
    /\ \A lot \in LotsReported :
         lot.remainingQty > 0 =>
           /\ lot.realizedUsd = SumProceeds(lot.matchedSells)
           /\ lot.peakPotentialUsd = lot.realizedUsd
           /\ lot.regretGapUsd = 0

\* What holds of a failed peak-candle lookup: the run finishes, and every lot
\* ends with realizedUsd and peakPotentialUsd both at the 0 it was created
\* with, whatever it was sold for.
C29_PeakFailureKeepsZero ==
  OracleThrowsAt("peak") =>
    /\ result.ok
    /\ \A lot \in LotsReported :
         lot.realizedUsd = 0 /\ lot.peakPotentialUsd = 0 /\ lot.regretGapUsd = 0

\* A reconstruction has been aborted by a failed lookup at p.
C29_AbortedAtBuy == OracleThrowsAt("buy") /\ ~result.ok
C29_AbortedAtSell == OracleThrowsAt("sell") /\ ~result.ok
C29_AbortedAtFee == OracleThrowsAt("fee") /\ ~result.ok

\* A failed peak-candle lookup has left a lot that was sold for something
\* with peakPotentialUsd = 0.
C29_PeakFailureLosesProceeds ==
  /\ OracleThrowsAt("peak") /\ result.ok
  /\ \E lot \in LotsReported :
       SumProceeds(lot.matchedSells) > 0 /\ lot.peakPotentialUsd = 0


\* The provider calls of every component, queue by queue.
NextQueue ==
  \/ \E c \in Callers : QueueAdd(c)
  \/ \E c \in Callers : QueueStart(c)
  \/ \E c \in Callers : QueueSettle(c)
  \/ \E q \in Clients : QueueInterval(q)

SpecQueue == Init /\ [][NextQueue]_vars

\* C30: at any moment at most 2 provider calls are in flight in the whole
\* process, whichever components and wallets they come from.
C30_AtMostTwoInFlight ==
  Cardinality({c \in Callers : pc[c] = "inflight"}) <= Concurrency

\* What the queues do bound: the calls in flight through one client instance,
\* and the calls one instance starts within an interval.
C30_AtMostTwoPerClient ==
  \A q \in Clients :
    /\ Cardinality(InFlight(q)) <= Concurrency
    /\ intervalCount[q] <= IntervalCap

\* Three callers of the indexer's PaginationManager have calls outstanding and
\* its queue holds the third back.
C30_ThirdCallHeld ==
  \E c \in Callers :
    /\ ClientOf(c) = "PaginationManager" /\ pc[c] = "queued"
    /\ Cardinality(InFlight("PaginationManager")) = Concurrency

\* Every caller's call is in flight at once, two per PaginationManager and
\* one through each other instance.
C30_FiveInFlight == Cardinality({c \in Callers : pc[c] = "inflight"}) = 5


\* Concurrent backfill and tail-sync requests for one wallet, interleaved at
\* their store and provider calls.
\* The interleavings are run over histories of one kind of transaction.
RunShapeIds == {2}

NextRuns ==
  \/ \E shape \in RunShapeIds : AddTx(shape)
  \/ \E c \in BackfillCallers : RunFindUnique(c)
  \/ \E c \in BackfillCallers : RunCreate(c)
  \/ \E c \in BackfillCallers : RunPage(c)
  \/ \E c \in BackfillCallers : RunMarkFullScan(c)
  \/ \E c \in TailCallers : TailFindUnique(c)
  \/ \E c \in TailCallers : TailPage(c)

SpecRuns == Init /\ [][NextRuns]_vars

\* The runs that have read the wallet's SyncState and not yet returned.
ActiveRuns == {c \in Callers : locals[c].at # "idle"}

\* C31: for one wallet there is never more than one backfill or tail-sync
\* run between its read of the SyncState row and its return.
C31_OneRunPerWallet == Cardinality(ActiveRuns) <= 1

\* Two backfill runs have both found no SyncState row and both go on to
\* create it.
C31_BothCreate == \A c \in BackfillCallers : locals[c].at = "create"

\* One run has advanced the cursor to the oldest signature and another run,
\* paging from the start, has since written its own newer cursor over it.
C31_CursorOverwritten ==
  \E c1, c2 \in BackfillCallers :
    /\ c1 # c2
    /\ locals[c1].at \in {"loop", "mark"} /\ locals[c2].at \in {"loop", "mark"}
    /\ locals[c1].r.stats.lastBefore = Some(1)
    /\ locals[c2].r.stats.lastBefore = Some(2)
    /\ syncState[RunWallet].lastBefore = Some(2)


\* Concurrent analysis requests for one wallet through analyzeOnce.
NextOnce ==
  \/ \E c \in AnalyzeCallers : AnalyzeOnce(c)
  \/ \E id \in 1..MaxRuns : RunResolves(id)
  \/ \E id \in 1..MaxRuns : RunRejects(id)
  \/ ClockTick
  \/ CacheOther
  \/ CacheEvict

SpecOnce == Init /\ [][NextOnce]_vars

PendingRuns == {i \in 1..Len(analyzeCache.runs) : analyzeCache.runs[i] = "pending"}

\* The calls made so far, those still awaiting their run included.
CallsMade == {c \in AnalyzeCallers : locals[c].at = "awaiting" \/ locals[c].outcome # ""}

\* At most one run is in flight, every caller that arrived while it was in
\* flight holds its promise, and every caller whose promise has settled got
\* what its run settled with.
SingleFlight ==
  /\ Cardinality(PendingRuns) <= 1
  /\ \A i \in PendingRuns : analyzeCache.inFlight = Some(i)
  /\ analyzeCache.inFlight # None => Val(analyzeCache.inFlight) \in PendingRuns
  /\ \A c \in CallsMade :
       /\ locals[c].at = "awaiting" => locals[c].r.run \in PendingRuns
       /\ locals[c].at = "idle" => locals[c].outcome = analyzeCache.runs[locals[c].r.run]

\* The call was made within the TTL of the last success before it.
WithinTtl(call) == call.since # None /\ call.time - Val(call.since).time < CACHE_TTL_MS

C32_EvictedAfterMaxSize ==
  [][(~analyzeCache.evicted /\ analyzeCache'.evicted) => analyzeCache.others >= maxSize]_vars

NextNormalize ==
  \/ result.op = "none" /\ \E payload \in Payloads, w \in Wallets : Normalize(payload, w)
  \/ Return

SpecNormalize == Init /\ [][NextNormalize]_vars

Normalized == result.op = "normalize"

\* What the transfer rule asks of one well-formed transfer: a SELL of -amount
\* iff from = wallet and to # wallet, a BUY of +amount iff to = wallet and
\* from # wallet, nothing otherwise.
RuleLeg(mint, from, to, amount, wallet) ==
  IF from = wallet /\ to # wallet THEN <<[mint |-> mint, side |-> "SELL", qty |-> 0 - amount]>>
  ELSE IF to = wallet /\ from # wallet THEN <<[mint |-> mint, side |-> "BUY", qty |-> amount]>>
  ELSE <<>>

RECURSIVE RuleTokenLegs(_, _)
RuleTokenLegs(ts, wallet) ==
  IF ts = <<>> THEN <<>>
  ELSE (IF Head(ts).mint = "" \/ Head(ts).tokenAmount = None THEN <<>>
        ELSE RuleLeg(Head(ts).mint, Head(ts).fromUserAccount, Head(ts).toUserAccount,
                     Val(Head(ts).tokenAmount), wallet))
       \o RuleTokenLegs(Tail(ts), wallet)

RECURSIVE RuleNativeLegs(_, _)
RuleNativeLegs(ts, wallet) ==
  IF ts = <<>> THEN <<>>
  ELSE (IF Head(ts).amount = None THEN <<>>
        ELSE RuleLeg(SOL_MINT, Head(ts).fromUserAccount, Head(ts).toUserAccount,
                     Val(Head(ts).amount), wallet))
       \o RuleNativeLegs(Tail(ts), wallet)

LegsOf(events) ==
  [i \in 1..Len(events) |->
     [mint |-> events[i].mint, side |-> events[i].side, qty |-> events[i].qty]]

\* C33: the events of a transaction are, in order, those the transfer rule
\* gives for its token transfers followed by those for its native transfers:
\* a SELL with negative amount iff from = wallet and to # wallet, a BUY with
\* positive amount iff to = wallet and from # wallet, nothing otherwise.
C33_TransferRule ==
  Normalized =>
    /\ LegsOf(result.events) =
         RuleTokenLegs(Shape(result.tx).tokenTransfers, result.wallet)
         \o RuleNativeLegs(Shape(result.tx).nativeTransfers, result.wallet)
    /\ \A i \in 1..Len(result.events) :
         IF result.events[i].side = "SELL" THEN result.events[i].qty < 0
         ELSE result.events[i].qty > 0

\* A transfer from the wallet to an address that differs from the wallet's
\* in letter case only yields no event.
C33_CaseVariantIgnored ==
  /\ Normalized
  /\ Len(Shape(result.tx).tokenTransfers) = 1
  /\ Shape(result.tx).nativeTransfers = <<>>
  /\ Shape(result.tx).tokenTransfers[1].fromUserAccount = result.wallet
  /\ Shape(result.tx).tokenTransfers[1].toUserAccount = "w1"
  /\ Shape(result.tx).tokenTransfers[1].tokenAmount # None
  /\ result.events = <<>>

\* The classification of a transaction as a swap: a structured swap event,
\* or an instruction of an allow-listed AMM program, or at least two token
\* transfers over at least two distinct mints.
ClassifiedSwap(payload) ==
  \/ payload.swap
  \/ \E prog \in payload.programs : prog \in AMM_PROGRAMS
  \/ /\ Len(payload.tokenTransfers) >= 2
     /\ \E i, j \in 1..Len(payload.tokenTransfers) :
          /\ payload.tokenTransfers[i].mint # ""
          /\ payload.tokenTransfers[j].mint # ""
          /\ payload.tokenTransfers[i].mint # payload.tokenTransfers[j].mint

Linked(events) == {i \in 1..Len(events) : events[i].linkId # None}

C34_WitnessNoSwap ==
  /\ Normalized
  /\ ~ClassifiedSwap(Shape(result.tx))
  /\ Len(result.events) >= 2
  /\ Linked(result.events) = {}

WithFee(events) == {i \in 1..Len(events) : events[i].feeLamports # None}

SellsOf(events) == {i \in 1..Len(events) : events[i].side = "SELL"}

\* C35: with a fee F > 0 and at least one event, exactly one event carries the
\* fee, it carries F and it is the first SELL event if there is one, else the
\* first event; with F = 0 or no event, no event carries a fee.
C35_FeeAttribution ==
  Normalized =>
    IF Shape(result.tx).fee > 0 /\ Len(result.events) > 0
    THEN /\ WithFee(result.events) =
              {IF SellsOf(result.events) # {} THEN SetMin(SellsOf(result.events)) ELSE 1}
         /\ \A i \in WithFee(result.events) :
              result.events[i].feeLamports = Some(Shape(result.tx).fee)
    ELSE WithFee(result.events) = {}

\* A BUY followed by a SELL, with a fee: the SELL carries it, the BUY does not.
C35_Witness ==
  /\ Normalized
  /\ Shape(result.tx).fee > 0
  /\ Len(result.events) >= 2
  /\ result.events[1].side = "BUY"
  /\ result.events[2].side = "SELL"
  /\ WithFee(result.events) = {2}

\* ---------------------------------------------------------------- C36

\* The indices of the WalletEvent rows stored for wallet w and signature sig.
StoredIndices(w, sig) == {r.index : r \in {x \in walletTx : x.wallet = w /\ x.signature = sig}}

\* C36: the events persisted for one wallet and transaction carry the indices
\* 0, 1, ..., k-1, k being the number of events the normalizer emits for the
\* transaction, whatever other transactions were persisted in the same call.
C36_DenseIndices ==
  \A w \in Wallets : \A sig \in RawSignatures \cap Range(History(w)) :
    StoredIndices(w, sig) = 0..(Len(normalize(Tx(sig), w)) - 1)

\* A page of two transactions with one event each was persisted in one call:
\* the event of the second transaction is stored under index 1.
C36_SecondStartsAtOne ==
  /\ result.op = "backfill"
  /\ \E sig \in RawSignatures :
       /\ Len(normalize(Tx(sig), result.wallet)) = 1
       /\ StoredIndices(result.wallet, sig) = {1}

\* ---------------------------------------------------------------- C37

\* The pages of a run that came back with transactions, in the order fetched.
NonEmptyPages(trace) == SelectSeq(trace, LAMBDA call : call.ok /\ Len(call.items) > 0)

FetchedSlots(trace) ==
  UNION {Slots(NonEmptyPages(trace)[i].items) : i \in 1..Len(NonEmptyPages(trace))}

\* C37: after a backfill run that fetched at least one non-empty page,
\* firstSlot is the highest slot of all fetched transactions and lastSlot is
\* the lowest slot of the last fetched transactions, also when the run ends on
\* an empty page.
C37_SlotStatistics ==
  (result.op = "backfill" /\ NonEmptyPages(result.trace) # <<>>) =>
     /\ result.stats.firstSlot = Some(SetMax(FetchedSlots(result.trace)))
     /\ result.stats.lastSlot =
          Some(SetMin(Slots(NonEmptyPages(result.trace)[Len(NonEmptyPages(result.trace))].items)))

\* A run fetched a page of transactions and then an empty page: lastSlot is
\* Math.min() of no slots.
C37_LastSlotInfinite ==
  /\ result.op = "backfill"
  /\ result.stats.rawTxCount > 0
  /\ result.exhausted
  /\ result.stats.firstSlot = Some(SetMax(FetchedSlots(result.trace)))
  /\ result.stats.lastSlot = Some(PosInfinity)

\* ---------------------------------------------------------------- C38

NextIndexer ==
  \/ \E shape \in ShapeIds : AddTx(shape)
  \/ \E w \in Wallets, maxPages \in MaxPagesArgs : IndexerBackfillWallet(w, maxPages)
  \/ \E w \in Wallets : SyncTail(w, NoFault)
  \/ Return

SpecIndexer == Init /\ [][NextIndexer]_vars

\* C38: SolanaIndexer.backfillWallet on a wallet with no SyncState, with the
\* provider and the store never failing, completes and returns the stats of
\* the backfill.
C38_FreshBackfillCompletes ==
  (result.op = "indexerBackfill" /\ result.fresh) => result.ok

\* The backfill of a wallet with no SyncState ingested its history and marked
\* the full scan, verifiedSlot is still null, and the call is rejected.
C38_RejectedAfterIngest ==
  /\ result.op = "indexerBackfill" /\ result.fresh
  /\ ~result.ok /\ result.error = "NoVerifiedSlot"
  /\ result.stats.rawTxCount > 0
  /\ RawSignatures = Range(History(result.wallet))
  /\ syncState[result.wallet].exists
  /\ syncState[result.wallet].verifiedSlot = None

\* With a verifiedSlot written by an earlier tail sync, the call completes.
C38_CompletesAfterTail ==
  /\ result.op = "indexerBackfill" /\ ~result.fresh
  /\ result.ok /\ result.verifiedBefore # None

\* ---------------------------------------------------------------- C39

\* The stored signatures of the slot range that belong to wallet w's history.
StoredOfWallet(rows, w, fromSlot, toSlot) ==
  StoredInRange(rows, fromSlot, toSlot) \cap Range(History(w))

\* C39: when the store holds exactly the provider's signatures of the wallet
\* in the slot range, a reconcileSlotRange that nothing fails in returns
\* ok = TRUE, no missing signature and the hash of the provider's signatures,
\* whatever raw rows of other wallets lie in the range.
C39_IndependentOfOtherWallets ==
  (/\ result.op = "reconcile" /\ result.ok /\ result.error = "" /\ result.rawSame
   /\ StoredOfWallet(rawTx, result.rec.wallet, result.rec.fromSlot, result.rec.toSlot)
        = ProviderInRange(result.rec.wallet, result.rec.fromSlot, result.rec.toSlot)) =>
     /\ result.rec.ok
     /\ result.rec.missingSignatures = <<>>
     /\ result.rec.hash =
          computeSignatureHash(SortedSeq(ProviderInRange(result.rec.wallet,
                                                         result.rec.fromSlot,
                                                         result.rec.toSlot)))

\* The store holds exactly the wallet's transactions of the range and one raw
\* row of another wallet: nothing is missing, and the result is ok = FALSE.
C39_OtherWalletBreaksOk ==
  /\ result.op = "reconcile" /\ result.ok /\ result.error = "" /\ result.rawSame
  /\ ProviderInRange(result.rec.wallet, result.rec.fromSlot, result.rec.toSlot) # {}
  /\ StoredOfWallet(rawTx, result.rec.wallet, result.rec.fromSlot, result.rec.toSlot)
       = ProviderInRange(result.rec.wallet, result.rec.fromSlot, result.rec.toSlot)
  /\ StoredInRange(rawTx, result.rec.fromSlot, result.rec.toSlot)
       # StoredOfWallet(rawTx, result.rec.wallet, result.rec.fromSlot, result.rec.toSlot)
  /\ result.rec.missingSignatures = <<>>
  /\ ~result.rec.ok

\* Without rows of other wallets in the range, the same store reconciles.
C39_OwnRowsOnlyOk ==
  /\ result.op = "reconcile" /\ result.ok /\ result.error = "" /\ result.rawSame
  /\ ProviderInRange(result.rec.wallet, result.rec.fromSlot, result.rec.toSlot) # {}
  /\ StoredInRange(rawTx, result.rec.fromSlot, result.rec.toSlot)
       = ProviderInRange(result.rec.wallet, result.rec.fromSlot, result.rec.toSlot)
  /\ result.rec.ok

\* ---------------------------------------------------------------- C40

\* The proceeds recorded for the sell made at time ts, over the matched sells
\* of one lot and over all the lots of a token.
RECURSIVE SellProceedsAt(_, _)
SellProceedsAt(matchedSells, ts) ==
  IF matchedSells = <<>> THEN 0
  ELSE (IF Head(matchedSells).time = ts THEN Head(matchedSells).proceedsUsd ELSE 0)
       + SellProceedsAt(Tail(matchedSells), ts)

RECURSIVE ProceedsAt(_, _)
ProceedsAt(lots, ts) ==
  IF lots = <<>> THEN 0
  ELSE SellProceedsAt(Head(lots).matchedSells, ts) + ProceedsAt(Tail(lots), ts)

MatchesAt(matches, ts) == {i \in 1..Len(matches) : matches[i].time = ts}

\* feeUsd(event): the fee in lamports at the SOL price of the sell's time.
FeeUsd(activity, oracle) ==
  IF activity.feeLamports # None /\ Val(activity.feeLamports) > 0
  THEN Val(activity.feeLamports) * CloseOrZero(GetCandles(oracle, "fee", activity.ts))
  ELSE 0

\* C40: the proceeds of the matches of one SELL event add up to the matched
\* quantity times the sell price minus the fee of the event, the fee being
\* deducted once however many lots the SELL is matched against.
C40_FeeDeductedOnce ==
  (result.op = "analyze" /\ result.ok /\ NoOracleThrowInMatching) =>
    \A n \in 1..Len(result.positions.tokens) :
      \A a \in Range(ActivitiesOf(result.activities,
                                  result.positions.tokens[n].tokenMint)) :
        (a.side = "SELL" /\ MatchesAt(result.positions.tokens[n].matches, a.ts) # {}) =>
          ProceedsAt(result.positions.tokens[n].lots, a.ts)
            = QtyPriceUnit * TakenAt(result.positions.tokens[n].matches, a.ts)
                * CloseOrZero(GetCandles(result.oracle, "sell", a.ts))
              - FeeUsd(a, result.oracle)

\* One SELL with a fee was matched against two lots, and its proceeds are
\* short of the claimed amount by one more fee.
C40_FeeDeductedPerLot ==
  /\ result.op = "analyze" /\ result.ok /\ result.oracle = OracleOk
  /\ \E n \in 1..Len(result.positions.tokens) :
       \E a \in Range(ActivitiesOf(result.activities,
                                   result.positions.tokens[n].tokenMint)) :
         /\ a.side = "SELL"
         /\ FeeUsd(a, result.oracle) > 0
         /\ Cardinality(MatchesAt(result.positions.tokens[n].matches, a.ts)) = 2
         /\ ProceedsAt(result.positions.tokens[n].lots, a.ts)
              = QtyPriceUnit * TakenAt(result.positions.tokens[n].matches, a.ts)
                  * CloseOrZero(GetCandles(result.oracle, "sell", a.ts))
                - 2 * FeeUsd(a, result.oracle)

\* A SELL with a fee matched against one lot has the fee deducted once.
C40_OneLotOneFee ==
  /\ result.op = "analyze" /\ result.ok /\ result.oracle = OracleOk
  /\ \E n \in 1..Len(result.positions.tokens) :
       \E a \in Range(ActivitiesOf(result.activities,
                                   result.positions.tokens[n].tokenMint)) :
         /\ a.side = "SELL"
         /\ FeeUsd(a, result.oracle) > 0
         /\ Cardinality(MatchesAt(result.positions.tokens[n].matches, a.ts)) = 1
         /\ ProceedsAt(result.positions.tokens[n].lots, a.ts)
              = QtyPriceUnit * TakenAt(result.positions.tokens[n].matches, a.ts)
                  * CloseOrZero(GetCandles(result.oracle, "sell", a.ts))
                - FeeUsd(a, result.oracle)

====
